---- MODULE Spec2Model ----
(***************************************************************************)
(* NexumDB: the statement executor (nexum_core/src/executor/mod.rs), the   *)
(* catalog (nexum_core/src/catalog/mod.rs) and the predicate evaluator     *)
(* (nexum_core/src/executor/filter.rs) over the ordered key-value store    *)
(* (nexum_core/src/storage/engine.rs).                                     *)
(*                                                                         *)
(* Keys are byte sequences, exactly as the code builds them.  Text is a    *)
(* sequence of one-character strings so that parsing and formatting are    *)
(* computed, not assumed.  A Float is a number of halves (3 is 1.5) or     *)
(* NaN.                                                                    *)
(***************************************************************************)
EXTENDS Integers, Sequences, FiniteSets, TLC

VARIABLES
    store,       \* the sled tree: key (byte sequence) -> stored value
    cache,       \* Executor.cache: "None", or the entries of the SemanticCache
    lastStmt,    \* the statement of the most recent execute call
    lastResult,  \* what that call returned
    lastFault,   \* the result-cache operation that failed during that call
    disk,        \* what sled has flushed: the store a crash leaves
    inflight,    \* an UPDATE between its scan and its batch, as another thread sees it
    observed     \* what a reader of the KV store running beside that UPDATE last saw

vars == <<store, cache, lastStmt, lastResult, lastFault, disk, inflight, observed>>

(***************************************************************************)
(* Bounds of the model.                                                    *)
(***************************************************************************)
MaxTime == 2          \* the timestamp source yields 1..MaxTime
MaxLimit == 1         \* LIMIT n ranges over 0..MaxLimit
SelectTimes == 3      \* the timestamp source yields 1..SelectTimes in SpecSelect
SelectLimit == 2      \* LIMIT n ranges over 0..SelectLimit in SpecSelect

(***************************************************************************)
(* Values (sql::types::Value, used throughout executor/mod.rs).            *)
(***************************************************************************)
IntV(i) == [tag |-> "Integer", i |-> i]
FloatV(h) == [tag |-> "Float", halves |-> h, nan |-> FALSE]
NaNV == [tag |-> "Float", halves |-> 0, nan |-> TRUE]
TextV(s) == [tag |-> "Text", s |-> s]
BoolV(b) == [tag |-> "Boolean", b |-> b]
NullV == [tag |-> "Null"]

Ok(v) == [ok |-> TRUE, val |-> v]
Err(kind, msg) == [ok |-> FALSE, err |-> kind, msg |-> msg]

(***************************************************************************)
(* Text helpers: str::parse::<i64>, str::parse::<f64>, to_string, trim,    *)
(* to_lowercase, over sequences of one-character strings.                  *)
(***************************************************************************)
Digits == <<"0", "1", "2", "3", "4", "5", "6", "7", "8", "9">>

IsDigit(c) == \E d \in 1..10 : Digits[d] = c

DigitVal(c) == (CHOOSE d \in 1..10 : Digits[d] = c) - 1

AllDigits(s) == Len(s) > 0 /\ \A k \in 1..Len(s) : IsDigit(s[k])

RECURSIVE DigitsVal(_)
DigitsVal(s) ==
    IF Len(s) = 0 THEN 0
    ELSE 10 * DigitsVal(SubSeq(s, 1, Len(s) - 1)) + DigitVal(s[Len(s)])

\* t.parse::<i64>(): an optional sign and at least one digit, nothing else.
ParseI64(s) ==
    IF Len(s) > 0 /\ s[1] \in {"-", "+"}
    THEN IF AllDigits(Tail(s))
         THEN Ok(IF s[1] = "-" THEN 0 - DigitsVal(Tail(s)) ELSE DigitsVal(Tail(s)))
         ELSE Err("ParseIntError", <<"invalid digit">>)
    ELSE IF AllDigits(s) THEN Ok(DigitsVal(s))
         ELSE Err("ParseIntError", <<"invalid digit">>)

DotAt(s) == CHOOSE k \in 1..Len(s) : s[k] = "."

\* t.parse::<f64>() on decimal text with an optional sign and at most one
\* fractional digit (0 or 5), and on the special value NaN; the result is in
\* halves.
ParseUnsignedF64(s) ==
    IF AllDigits(s) THEN Ok(FloatV(2 * DigitsVal(s)))
    ELSE IF /\ Len(s) >= 3
            /\ \E k \in 1..Len(s) : s[k] = "."
            /\ DotAt(s) = Len(s) - 1
            /\ AllDigits(SubSeq(s, 1, Len(s) - 2))
            /\ s[Len(s)] \in {"0", "5"}
         THEN Ok(FloatV(2 * DigitsVal(SubSeq(s, 1, Len(s) - 2))
                        + (IF s[Len(s)] = "5" THEN 1 ELSE 0)))
         ELSE Err("ParseFloatError", <<"invalid float literal">>)

\* the parsed magnitude with the sign applied
Signed(negative, magnitude) ==
    IF negative /\ magnitude.ok THEN Ok(FloatV(0 - magnitude.val.halves)) ELSE magnitude

ParseF64(s) ==
    IF s = <<"N", "a", "N">> THEN Ok(NaNV)
    ELSE Signed(Len(s) > 0 /\ s[1] = "-",
                ParseUnsignedF64(IF Len(s) > 0 /\ s[1] \in {"-", "+"} THEN Tail(s) ELSE s))

RECURSIVE NatToText(_)
NatToText(n) ==
    IF n < 10 THEN <<Digits[n + 1]>>
    ELSE NatToText(n \div 10) \o <<Digits[(n % 10) + 1]>>

\* i64::to_string
IntToText(i) == IF i < 0 THEN <<"-">> \o NatToText(0 - i) ELSE NatToText(i)

\* a trim that strips nothing
MutantTrimNothing(s) == s

\* f64::to_string: 1.0 prints as "1", 1.5 as "1.5", NaN as "NaN".
FloatToText(f) ==
    IF f.nan THEN <<"N", "a", "N">>
    ELSE IF f.halves % 2 = 0 THEN IntToText(f.halves \div 2)
    ELSE IF f.halves < 0
         THEN <<"-">> \o NatToText((0 - f.halves) \div 2) \o <<".", "5">>
         ELSE NatToText(f.halves \div 2) \o <<".", "5">>

RECURSIVE TrimStart(_)
TrimStart(s) == IF Len(s) > 0 /\ s[1] = " " THEN TrimStart(Tail(s)) ELSE s

RECURSIVE TrimEnd(_)
TrimEnd(s) ==
    IF Len(s) > 0 /\ s[Len(s)] = " " THEN TrimEnd(SubSeq(s, 1, Len(s) - 1)) ELSE s

Trim(s) == TrimEnd(TrimStart(s))

LowerChar(c) ==
    CASE c = "T" -> "t" [] c = "R" -> "r" [] c = "U" -> "u" [] c = "E" -> "e"
      [] c = "F" -> "f" [] c = "A" -> "a" [] c = "L" -> "l" [] c = "S" -> "s"
      [] c = "N" -> "n" [] OTHER -> c

ToLowercase(s) == [k \in 1..Len(s) |-> LowerChar(s[k])]

(***************************************************************************)
(* Executor::format_value and Executor::coerce_value.                      *)
(***************************************************************************)
format_value(value) ==
    CASE value.tag = "Integer" -> IntToText(value.i)
      [] value.tag = "Float" -> FloatToText(value)
      [] value.tag = "Text" -> value.s
      [] value.tag = "Boolean" ->
            IF value.b THEN <<"t", "r", "u", "e">> ELSE <<"f", "a", "l", "s", "e">>
      [] value.tag = "Null" -> <<"N", "U", "L", "L">>

TypeMismatch(column_name, expected, got) ==
    Err("WriteError", <<"Type mismatch", column_name, expected, got>>)

coerce_value(column_name, expected, value) ==
    IF value.tag = "Null" THEN Ok(NullV)
    ELSE CASE expected = "Integer" ->
            (CASE value.tag = "Integer" -> Ok(value)
               [] value.tag = "Float" ->
                    IF ~value.nan /\ value.halves % 2 = 0
                    THEN Ok(IntV(value.halves \div 2))
                    ELSE TypeMismatch(column_name, "Integer", "Float")
               [] value.tag = "Text" ->
                    IF ParseI64(value.s).ok THEN Ok(IntV(ParseI64(value.s).val))
                    ELSE TypeMismatch(column_name, "Integer", "Text")
               [] value.tag = "Boolean" -> Ok(IntV(IF value.b THEN 1 ELSE 0)))
      [] expected = "Float" ->
            (CASE value.tag = "Float" -> Ok(value)
               [] value.tag = "Integer" -> Ok(FloatV(2 * value.i))
               [] value.tag = "Text" ->
                    IF ParseF64(value.s).ok THEN Ok(ParseF64(value.s).val)
                    ELSE TypeMismatch(column_name, "Float", "Text")
               [] value.tag = "Boolean" -> Ok(FloatV(IF value.b THEN 2 ELSE 0)))
      [] expected = "Text" -> Ok(TextV(format_value(value)))
      [] expected = "Boolean" ->
            (CASE value.tag = "Boolean" -> Ok(value)
               [] value.tag = "Integer" ->
                    IF value.i = 0 THEN Ok(BoolV(FALSE))
                    ELSE IF value.i = 1 THEN Ok(BoolV(TRUE))
                    ELSE TypeMismatch(column_name, "Boolean", "Integer")
               [] value.tag = "Float" ->
                    IF ~value.nan /\ value.halves = 0 THEN Ok(BoolV(FALSE))
                    ELSE IF ~value.nan /\ value.halves = 2 THEN Ok(BoolV(TRUE))
                    ELSE TypeMismatch(column_name, "Boolean", "Float")
               [] value.tag = "Text" ->
                    LET normalized == ToLowercase(Trim(value.s))
                    IN  IF normalized \in {<<"t", "r", "u", "e">>, <<"1">>}
                        THEN Ok(BoolV(TRUE))
                        ELSE IF normalized \in {<<"f", "a", "l", "s", "e">>, <<"0">>}
                        THEN Ok(BoolV(FALSE))
                        ELSE TypeMismatch(column_name, "Boolean", "Text"))
      [] expected = "Null" ->
            Err("WriteError", <<"does not accept non-null values", column_name>>)

(***************************************************************************)
(* Key layout (Catalog::table_key, Executor::table_data_prefix,            *)
(* Executor::generate_row_key).  Bytes are numbers 0..255.                 *)
(***************************************************************************)
CATALOG_PREFIX == <<99, 97, 116, 97, 108, 111, 103, 58>>   \* b"catalog:"

DATA_PREFIX == <<100, 97, 116, 97, 58>>                     \* "data:"

COLON == <<58>>                                             \* ":"

TimestampBytes == 16     \* u128::to_be_bytes

table_key(name) == CATALOG_PREFIX \o name

table_data_prefix(table) == DATA_PREFIX \o table \o COLON

RECURSIVE ShiftRightBytes(_, _)
ShiftRightBytes(n, count) ==
    IF count = 0 \/ n = 0 THEN n ELSE ShiftRightBytes(n \div 256, count - 1)

to_be_bytes(timestamp) ==
    [k \in 1..TimestampBytes |-> ShiftRightBytes(timestamp, TimestampBytes - k) % 256]

generate_row_key(table, timestamp) == table_data_prefix(table) \o to_be_bytes(timestamp)

(***************************************************************************)
(* The key-value store (storage/engine.rs over sled): an ordered map from  *)
(* byte keys to values; scan_prefix yields the entries whose key starts    *)
(* with the prefix, in byte-lexicographic key order.                       *)
(***************************************************************************)
None == [some |-> FALSE]
Some(v) == [some |-> TRUE, val |-> v]

storage_get(s, key) == IF key \in DOMAIN s THEN Some(s[key]) ELSE None

storage_set(s, key, value) ==
    [k \in (DOMAIN s) \cup {key} |-> IF k = key THEN value ELSE s[k]]

storage_delete(s, key) == [k \in (DOMAIN s) \ {key} |-> s[k]]

RECURSIVE batch_set(_, _)
\* a batch of which only the first write has reached the tree
MutantBatchSetFirstOnly(s, operations) ==
    IF Len(operations) = 0 THEN s
    ELSE storage_set(s, operations[1][1], operations[1][2])

\* StorageEngine::batch_set: sled applies the batch as one atomic step
batch_set(s, operations) ==
    IF Len(operations) = 0 THEN s
    ELSE batch_set(storage_set(s, operations[1][1], operations[1][2]), Tail(operations))

\* whether a StorageEngine write ends with self.db.flush(): set and batch_set
\* do, delete does not
Flushes(operation) ==
    CASE operation = "set" -> TRUE
      [] operation = "batch_set" -> TRUE
      [] operation = "delete" -> FALSE

StartsWith(key, prefix) ==
    Len(key) >= Len(prefix) /\ SubSeq(key, 1, Len(prefix)) = prefix

\* byte-lexicographic order of two distinct keys
KeyLess(a, b) ==
    LET n == IF Len(a) < Len(b) THEN Len(a) ELSE Len(b)
        diff == {k \in 1..n : a[k] # b[k]}
    IN  IF diff = {} THEN Len(a) < Len(b)
        ELSE LET d == CHOOSE k \in diff : \A j \in diff : k <= j
             IN  a[d] < b[d]

RECURSIVE InKeyOrder(_, _)
InKeyOrder(s, keys) ==
    IF keys = {} THEN <<>>
    ELSE LET first == CHOOSE k \in keys : \A j \in keys \ {k} : KeyLess(k, j)
         IN  <<<<first, s[first]>>>> \o InKeyOrder(s, keys \ {first})

scan_prefix(s, prefix) == InKeyOrder(s, {k \in DOMAIN s : StartsWith(k, prefix)})

(***************************************************************************)
(* Row codec: serde_json of Row { values: Vec<Value> }.  serde_json writes *)
(* a non-finite f64 as null, which does not read back as an f64.           *)
(***************************************************************************)
EncodeValue(v) ==
    IF v.tag = "Null" THEN [variant |-> "Null", json |-> "unit"]
    ELSE IF v.tag = "Float" /\ v.nan THEN [variant |-> "Float", json |-> "null"]
    ELSE [variant |-> v.tag, json |-> "value", value |-> v]

DecodeValue(e) ==
    IF e.json = "unit" THEN Ok(NullV)
    ELSE IF e.json = "null" THEN Err("SerializationError", <<"invalid type: null">>)
    ELSE Ok(e.value)

\* serde_json::to_vec(&row)
EncodeRow(row) == [doc |-> "Row", values |-> [k \in 1..Len(row) |-> EncodeValue(row[k])]]

\* serde_json::from_slice::<Row>(value)
DecodeRow(bytes) ==
    IF bytes.doc # "Row" THEN Err("SerializationError", <<"missing field values">>)
    ELSE IF \E k \in 1..Len(bytes.values) : ~DecodeValue(bytes.values[k]).ok
    THEN Err("SerializationError", <<"invalid type: null">>)
    ELSE Ok([k \in 1..Len(bytes.values) |-> DecodeValue(bytes.values[k]).val])

(***************************************************************************)
(* Catalog (catalog/mod.rs).  A Column is [name, data_type]; the entry     *)
(* stores the type as its Debug string.                                    *)
(***************************************************************************)
Column(name, data_type) == [name |-> name, data_type |-> data_type]

parse_data_type(s) ==
    CASE s = "Integer" -> "Integer"
      [] s = "Float" -> "Float"
      [] s = "Text" -> "Text"
      [] s = "Boolean" -> "Boolean"
      [] OTHER -> "Null"

\* format!("{:?}", c.data_type): the name of the DataType variant
DebugDataType(data_type) ==
    CASE data_type = "Integer" -> "Integer"
      [] data_type = "Float" -> "Float"
      [] data_type = "Text" -> "Text"
      [] data_type = "Boolean" -> "Boolean"
      [] data_type = "Null" -> "Null"

\* a create_table that replaces the entry of an existing table
MutantCreateTableOverwrites(s, name, columns) ==
    [res |-> Ok("unit"),
     store |-> storage_set(s, table_key(name),
                           [doc |-> "CatalogEntry", name |-> name,
                            columns |-> [k \in 1..Len(columns) |->
                                            <<columns[k].name,
                                              DebugDataType(columns[k].data_type)>>]])]

\* Catalog::create_table: the result and the store it leaves
create_table(s, name, columns) ==
    LET key == table_key(name)
    IN  IF storage_get(s, key).some
        THEN [res |-> Err("WriteError", <<"already exists", name>>), store |-> s]
        ELSE LET entry == [doc |-> "CatalogEntry",
                           name |-> name,
                           columns |-> [k \in 1..Len(columns) |->
                                           <<columns[k].name,
                                             DebugDataType(columns[k].data_type)>>]]
             IN  [res |-> Ok("unit"), store |-> storage_set(s, key, entry)]

\* Catalog::get_table
get_table(s, name) ==
    LET data == storage_get(s, table_key(name))
    IN  IF data.some
        THEN Some([name |-> data.val.name,
                   columns |-> [k \in 1..Len(data.val.columns) |->
                                   Column(data.val.columns[k][1],
                                          parse_data_type(data.val.columns[k][2]))]])
        ELSE None

\* Catalog::list_tables
list_tables(s) ==
    LET results == scan_prefix(s, CATALOG_PREFIX)
    IN  [k \in 1..Len(results) |-> results[k][2].name]

\* Catalog::drop_table
drop_table(s, name) == storage_delete(s, table_key(name))

(***************************************************************************)
(* Predicate evaluator (executor/filter.rs).  An expression is one of      *)
(*   [kind |-> "Identifier", value], [kind |-> "Value", value],            *)
(*   [kind |-> "BinaryOp", left, op, right],                               *)
(*   [kind |-> "Like", negated, expr, pattern],                            *)
(*   [kind |-> "InList", expr, list, negated],                             *)
(*   [kind |-> "Between", expr, negated, low, high].                       *)
(* A result is Ok(TRUE), Ok(FALSE), an error, or a panic (an index out of  *)
(* the row's bounds).                                                      *)
(***************************************************************************)
Identifier(name) == [kind |-> "Identifier", value |-> name]
Literal(sql_val) == [kind |-> "Value", value |-> sql_val]
BinaryOp(left, op, right) == [kind |-> "BinaryOp", left |-> left, op |-> op, right |-> right]

SqlNumber(n) == [sql |-> "Number", n |-> n]
SqlString(t) == [sql |-> "SingleQuotedString", s |-> t]
SqlBoolean(b) == [sql |-> "Boolean", b |-> b]
SqlNull == [sql |-> "Null"]

Panic(msg) == [ok |-> FALSE, err |-> "Panic", msg |-> <<msg>>]

\* the characters of the model's texts, in code-point order
CharOrder == <<" ", "%", "+", "-", ".", "0", "1", "2", "3", "4", "5", "6", "7", "8",
               "9", ":", "A", "E", "F", "L", "N", "R", "S", "T", "U", "_", "a", "b",
               "e", "f", "l", "n", "r", "s", "t", "u", "x">>

CharCode(c) == CHOOSE k \in 1..Len(CharOrder) : CharOrder[k] = c

MutantTextLessByLength(a, b) == Len(a) < Len(b)

\* str::cmp: byte-lexicographic
TextLess(a, b) ==
    LET n == IF Len(a) < Len(b) THEN Len(a) ELSE Len(b)
        diff == {k \in 1..n : a[k] # b[k]}
    IN  IF diff = {} THEN Len(a) < Len(b)
        ELSE LET d == CHOOSE k \in diff : \A j \in diff : k <= j
             IN  CharCode(a[d]) < CharCode(b[d])

\* ExpressionEvaluator::convert_sql_value
convert_sql_value(sql_val) ==
    CASE sql_val.sql = "Number" ->
            IF \E k \in 1..Len(sql_val.n) : sql_val.n[k] = "."
            THEN (IF ParseF64(sql_val.n).ok THEN Ok(ParseF64(sql_val.n).val)
                  ELSE Err("Eval", <<"invalid float literal">>))
            ELSE (IF ParseI64(sql_val.n).ok THEN Ok(IntV(ParseI64(sql_val.n).val))
                  ELSE Err("Eval", <<"invalid digit">>))
      [] sql_val.sql \in {"SingleQuotedString", "DoubleQuotedString"} -> Ok(TextV(sql_val.s))
      [] sql_val.sql = "Boolean" -> Ok(BoolV(sql_val.b))
      [] sql_val.sql = "Null" -> Ok(NullV)
      [] OTHER -> Err("Eval", <<"Unsupported SQL value">>)

PositionOf(names, name) ==
    IF \E k \in 1..Len(names) : names[k] = name
    THEN CHOOSE k \in 1..Len(names) : names[k] = name /\ \A j \in 1..(k - 1) : names[j] # name
    ELSE 0

\* ExpressionEvaluator::extract_value
extract_value(column_names, expr, row_values) ==
    CASE expr.kind = "Identifier" ->
            LET idx == PositionOf(column_names, expr.value)
            IN  IF idx = 0 THEN Err("Eval", <<"Column not found">>)
                ELSE IF idx > Len(row_values) THEN Panic("index out of bounds")
                ELSE Ok(row_values[idx])
      [] expr.kind = "Value" -> convert_sql_value(expr.value)
      [] OTHER -> Err("Eval", <<"Cannot extract value from expression">>)

\* ExpressionEvaluator::compare_values
compare_values(left, op, right) ==
    CASE left.tag = "Integer" /\ right.tag = "Integer" ->
            Ok(CASE op = "Eq" -> left.i = right.i
                 [] op = "NotEq" -> left.i # right.i
                 [] op = "Gt" -> left.i > right.i
                 [] op = "Lt" -> left.i < right.i
                 [] op = "GtEq" -> left.i >= right.i
                 [] op = "LtEq" -> left.i <= right.i)
      [] left.tag = "Float" /\ right.tag = "Float" ->
            LET nan == left.nan \/ right.nan
            IN  Ok(CASE op = "Eq" -> ~nan /\ left.halves = right.halves
                     [] op = "NotEq" -> ~nan /\ left.halves # right.halves
                     [] op = "Gt" -> ~nan /\ left.halves > right.halves
                     [] op = "Lt" -> ~nan /\ left.halves < right.halves
                     [] op = "GtEq" -> ~nan /\ left.halves >= right.halves
                     [] op = "LtEq" -> ~nan /\ left.halves <= right.halves)
      [] left.tag = "Text" /\ right.tag = "Text" ->
            Ok(CASE op = "Eq" -> left.s = right.s
                 [] op = "NotEq" -> left.s # right.s
                 [] op = "Gt" -> TextLess(right.s, left.s)
                 [] op = "Lt" -> TextLess(left.s, right.s)
                 [] op = "GtEq" -> ~TextLess(left.s, right.s)
                 [] op = "LtEq" -> ~TextLess(right.s, left.s))
      [] left.tag = "Boolean" /\ right.tag = "Boolean" ->
            IF op = "Eq" THEN Ok(left.b = right.b)
            ELSE IF op = "NotEq" THEN Ok(left.b # right.b)
            ELSE Err("Eval", <<"Invalid operator for booleans">>)
      [] left.tag = "Null" /\ right.tag = "Null" ->
            IF op = "Eq" THEN Ok(TRUE)
            ELSE IF op = "NotEq" THEN Ok(FALSE)
            ELSE Err("Eval", <<"Invalid operator for nulls">>)
      [] OTHER -> Err("Eval", <<"Type mismatch in comparison">>)

Like(negated, expr, pattern) ==
    [kind |-> "Like", negated |-> negated, expr |-> expr, pattern |-> pattern]
InList(expr, list, negated) ==
    [kind |-> "InList", expr |-> expr, list |-> list, negated |-> negated]
Between(expr, negated, low, high) ==
    [kind |-> "Between", expr |-> expr, negated |-> negated, low |-> low, high |-> high]

\* pat.replace('%', ".*").replace('_', ".")
RECURSIVE regex_pattern(_)
regex_pattern(pat) ==
    IF Len(pat) = 0 THEN <<>>
    ELSE (CASE pat[1] = "%" -> <<".", "*">>
            [] pat[1] = "_" -> <<".">>
            [] OTHER -> <<pat[1]>>) \o regex_pattern(Tail(pat))

\* r without its leading repetition operators
RECURSIVE AfterStars(_)
AfterStars(r) == IF Len(r) > 0 /\ r[1] = "*" THEN AfterStars(Tail(r)) ELSE r

\* Regex::new of ^r$ for r built from literal characters, '.', '*' and '(':
\* a group that is never closed is a syntax error
RegexNew(r) ==
    IF \E k \in 1..Len(r) : r[k] = "(" THEN Err("Eval", <<"Invalid LIKE pattern">>)
    ELSE Ok(r)

\* r matches the whole of text: '.' is any character but a line feed, x* is
\* any number of x
RECURSIVE MatchesAll(_, _)
MatchesAll(r, text) ==
    IF Len(r) = 0 THEN Len(text) = 0
    ELSE IF Len(r) >= 2 /\ r[2] = "*"
    THEN \/ MatchesAll(AfterStars(Tail(r)), text)
         \/ /\ Len(text) > 0
            /\ (r[1] = text[1] \/ (r[1] = "." /\ text[1] # "\n"))
            /\ MatchesAll(r, Tail(text))
    ELSE /\ Len(text) > 0
         /\ (r[1] = text[1] \/ (r[1] = "." /\ text[1] # "\n"))
         /\ MatchesAll(Tail(r), Tail(text))

\* Regex::is_match of ^r$ on text.  A '*' at the head of r repeats the anchor
\* ^, which may then match no times: the rest of r matches some end of text
is_match(r, text) ==
    IF Len(r) > 0 /\ r[1] = "*"
    THEN \E k \in 0..Len(text) : MatchesAll(AfterStars(r), SubSeq(text, k + 1, Len(text)))
    ELSE MatchesAll(r, text)

\* ExpressionEvaluator::evaluate_like, given its two operands as extract_value
\* returned them
evaluate_like(negated, value, pattern_val) ==
    IF ~value.ok THEN value
    ELSE IF ~pattern_val.ok THEN pattern_val
    ELSE IF value.val.tag = "Text" /\ pattern_val.val.tag = "Text"
    THEN IF RegexNew(regex_pattern(pattern_val.val.s)).ok
         THEN Ok(is_match(regex_pattern(pattern_val.val.s), value.val.s) # negated)
         ELSE Err("Eval", <<"Invalid LIKE pattern">>)
    ELSE Err("Eval", <<"LIKE operator requires text values">>)

\* ExpressionEvaluator::values_equal
values_equal(left, right) ==
    CASE left.tag = "Integer" /\ right.tag = "Integer" -> left.i = right.i
      [] left.tag = "Float" /\ right.tag = "Float" ->
            ~left.nan /\ ~right.nan /\ left.halves = right.halves
      [] left.tag = "Text" /\ right.tag = "Text" -> left.s = right.s
      [] left.tag = "Boolean" /\ right.tag = "Boolean" -> left.b = right.b
      [] left.tag = "Null" /\ right.tag = "Null" -> TRUE
      [] OTHER -> FALSE

MutantFoundFromFirstOnly(value, list_vals, k) ==
    IF k > Len(list_vals) THEN Ok(FALSE)
    ELSE IF ~list_vals[k].ok THEN list_vals[k]
    ELSE Ok(values_equal(value, list_vals[k].val))

\* the loop of evaluate_in_list from list element k on: found, or the error
\* of the first element that cannot be extracted before a match
RECURSIVE FoundFrom(_, _, _)
FoundFrom(value, list_vals, k) ==
    IF k > Len(list_vals) THEN Ok(FALSE)
    ELSE IF ~list_vals[k].ok THEN list_vals[k]
    ELSE IF values_equal(value, list_vals[k].val) THEN Ok(TRUE)
    ELSE FoundFrom(value, list_vals, k + 1)

Negated(negated, found) == IF found.ok THEN Ok(found.val # negated) ELSE found

\* ExpressionEvaluator::evaluate_in_list, given its operand and list elements
\* as extract_value returned them
evaluate_in_list(value, list_vals, negated) ==
    IF ~value.ok THEN value
    ELSE Negated(negated, FoundFrom(value.val, list_vals, 1))

MutantInRangeEither(gte_low, lte_high) ==
    IF ~gte_low.ok THEN gte_low
    ELSE IF ~lte_high.ok THEN lte_high
    ELSE Ok(gte_low.val \/ lte_high.val)

\* gte_low && lte_high, or the first error
InRange(gte_low, lte_high) ==
    IF ~gte_low.ok THEN gte_low
    ELSE IF ~lte_high.ok THEN lte_high
    ELSE Ok(gte_low.val /\ lte_high.val)

\* ExpressionEvaluator::evaluate_between, given its three operands as
\* extract_value returned them
evaluate_between(negated, value, low_val, high_val) ==
    IF ~value.ok THEN value
    ELSE IF ~low_val.ok THEN low_val
    ELSE IF ~high_val.ok THEN high_val
    ELSE Negated(negated, InRange(compare_values(value.val, "GtEq", low_val.val),
                                  compare_values(value.val, "LtEq", high_val.val)))

\* the comparison arm of evaluate_binary_op: the error of the first operand
\* that cannot be extracted, or compare_values
ComparisonOf(left_val, op, right_val) ==
    IF ~left_val.ok THEN left_val
    ELSE IF ~right_val.ok THEN right_val
    ELSE compare_values(left_val.val, op, right_val.val)

\* the operand expressions of a predicate, in the order the evaluator
\* extracts them
Operands(expr) ==
    CASE expr.kind = "BinaryOp" -> <<expr.left, expr.right>>
      [] expr.kind = "Like" -> <<expr.expr, expr.pattern>>
      [] expr.kind = "InList" -> <<expr.expr>> \o expr.list
      [] expr.kind = "Between" -> <<expr.expr, expr.low, expr.high>>

\* extract_value of each operand
Extracted(column_names, exprs, row_values) ==
    [k \in 1..Len(exprs) |-> extract_value(column_names, exprs[k], row_values)]

\* evaluate_binary_op's comparison arm, evaluate_like, evaluate_in_list and
\* evaluate_between on the extracted operands
OnOperands(expr, vals) ==
    CASE expr.kind = "BinaryOp" -> ComparisonOf(vals[1], expr.op, vals[2])
      [] expr.kind = "Like" -> evaluate_like(expr.negated, vals[1], vals[2])
      [] expr.kind = "InList" -> evaluate_in_list(vals[1], Tail(vals), expr.negated)
      [] expr.kind = "Between" -> evaluate_between(expr.negated, vals[1], vals[2], vals[3])

MutantConnectiveShortCircuits(op, left_result, right_result) ==
    IF ~left_result.ok THEN left_result
    ELSE IF op = "And" /\ ~left_result.val THEN Ok(FALSE)
    ELSE IF op = "Or" /\ left_result.val THEN Ok(TRUE)
    ELSE right_result

\* the And and Or arms of evaluate_binary_op, given the two operands as
\* evaluate returned them: the error of the left one, else the error of the
\* right one, else left_result && right_result or left_result || right_result
Connective(op, left_result, right_result) ==
    IF ~left_result.ok THEN left_result
    ELSE IF ~right_result.ok THEN right_result
    ELSE IF op = "And" THEN Ok(left_result.val /\ right_result.val)
    ELSE Ok(left_result.val \/ right_result.val)

\* ExpressionEvaluator::evaluate with evaluate_binary_op
RECURSIVE evaluate(_, _, _)
evaluate(column_names, expr, row_values) ==
    CASE expr.kind = "BinaryOp" ->
            (CASE expr.op \in {"And", "Or"} ->
                    Connective(expr.op, evaluate(column_names, expr.left, row_values),
                               evaluate(column_names, expr.right, row_values))
               [] expr.op \in {"Gt", "Lt", "GtEq", "LtEq", "Eq", "NotEq"} ->
                    OnOperands(expr, Extracted(column_names, Operands(expr), row_values))
               [] OTHER -> Err("Eval", <<"Unsupported operator">>))
      [] expr.kind = "Identifier" ->
            LET idx == PositionOf(column_names, expr.value)
            IN  IF idx = 0 THEN Err("Eval", <<"Column not found">>)
                ELSE IF idx > Len(row_values) THEN Panic("index out of bounds")
                ELSE IF row_values[idx].tag = "Boolean" THEN Ok(row_values[idx].b)
                ELSE Err("Eval", <<"Expected boolean value for identifier">>)
      [] expr.kind \in {"Like", "InList", "Between"} ->
            OnOperands(expr, Extracted(column_names, Operands(expr), row_values))
      [] OTHER -> Err("Eval", <<"Unsupported expression type">>)

(***************************************************************************)
(* The result cache (bridge::SemanticCache behind Executor.cache): a map   *)
(* from query text to the serialized projected rows.  Each operation can   *)
(* fail; fault names the operation that fails during the current call      *)
(* ("corrupt": get yields text that does not decode as rows).              *)
(***************************************************************************)
NoCache == [enabled |-> FALSE, entries |-> <<>>]
EmptyCache == [enabled |-> TRUE, entries |-> <<>>]

cache_get(c, key, fault) ==
    IF fault = "get" THEN Err("CacheError", <<"get failed">>)
    ELSE IF key \in DOMAIN c.entries
         THEN Ok(Some(IF fault = "corrupt" THEN [doc |-> "garbage"] ELSE c.entries[key]))
         ELSE Ok(None)

cache_put(c, key, data, fault) ==
    IF fault = "put" THEN [res |-> Err("CacheError", <<"put failed">>), cache |-> c]
    ELSE [res |-> Ok("unit"),
          cache |-> [c EXCEPT !.entries =
                        [k \in (DOMAIN c.entries) \cup {key} |->
                            IF k = key THEN data ELSE c.entries[k]]]]

clear_cache(c, fault) ==
    IF fault = "clear" THEN [res |-> Err("CacheError", <<"clear failed">>), cache |-> c]
    ELSE [res |-> Ok("unit"), cache |-> [c EXCEPT !.entries = <<>>]]

\* serde_json::to_string(&projected_rows) and serde_json::from_str::<Vec<Row>>
EncodeRows(rows) == [doc |-> "Rows", rows |-> [k \in 1..Len(rows) |-> EncodeRow(rows[k])]]

DecodeRows(text) ==
    IF text.doc # "Rows" THEN Err("SerializationError", <<"expected a sequence">>)
    ELSE IF \E k \in 1..Len(text.rows) : ~DecodeRow(text.rows[k]).ok
    THEN Err("SerializationError", <<"invalid type: null">>)
    ELSE Ok([k \in 1..Len(text.rows) |-> DecodeRow(text.rows[k]).val])

(***************************************************************************)
(* Executor (executor/mod.rs).  Every handler yields the ExecutionResult   *)
(* or error it returns, the store and cache it leaves, and the cache       *)
(* fault it met.                                                           *)
(***************************************************************************)
\* msg is the text of the error as a tuple of its parts; an error raised while
\* scanning rows (UPDATE, DELETE) carries as its last part the number of rows
\* collected before the failing one, which the code's text does not hold and
\* which only the properties read
ErrResult(kind, msg) == [kind |-> "Err", err |-> kind, msg |-> msg]
PanicResult == [kind |-> "Panic"]

Outcome(result, s, c, fault) == [result |-> result, store |-> s, cache |-> c, fault |-> fault]

\* a missing table reported as a write error
MutantNotFoundAsWriteError(table) == ErrResult("WriteError", <<"Table not found", table>>)

NotFound(table) == ErrResult("ReadError", <<"Table not found", table>>)

\* an invalidate_cache that reports success and clears nothing
MutantInvalidateKeeps(c, fault) ==
    [res |-> Ok("unit"), cache |-> c, fault |-> "none"]

\* Executor::invalidate_cache

invalidate_cache(c, fault) ==
    IF c.enabled
    THEN LET cleared == clear_cache(c, fault)
         IN  IF cleared.res.ok
             THEN [res |-> Ok("unit"), cache |-> cleared.cache, fault |-> "none"]
             ELSE [res |-> Err("WriteError", <<"CacheError">>), cache |-> cleared.cache,
                   fault |-> "clear"]
    ELSE [res |-> Ok("unit"), cache |-> c, fault |-> "none"]

\* the tail every mutating handler shares: self.invalidate_cache()?; Ok(result)
Finish(s, c, fault, result) ==
    LET inv == invalidate_cache(c, fault)
    IN  IF inv.res.ok THEN Outcome(result, s, inv.cache, inv.fault)
        ELSE Outcome(ErrResult(inv.res.err, inv.res.msg), s, inv.cache, inv.fault)

ColumnNames(schema) == [k \in 1..Len(schema.columns) |-> schema.columns[k].name]

HasDuplicate(names) ==
    \E j, k \in 1..Len(names) : j < k /\ names[j] = names[k]

FirstDuplicate(names) ==
    CHOOSE k \in 1..Len(names) :
        /\ \E j \in 1..(k - 1) : names[j] = names[k]
        /\ \A m \in 1..(k - 1) : ~\E j \in 1..(m - 1) : names[j] = names[m]

\* Statement::CreateTable
ExecCreateTable(s, c, name, columns, fault) ==
    LET created == create_table(s, name, columns)
    IN  IF ~created.res.ok
        THEN Outcome(ErrResult(created.res.err, created.res.msg), s, c, "none")
        ELSE Finish(created.store, c, fault, [kind |-> "Created", table |-> name])

(***************************************************************************)
(* Executor::prepare_insert_rows                                           *)
(***************************************************************************)
\* the cells of one value list coerced to the columns at positions[k]
CoerceCells(schema, positions, row_values) ==
    [k \in 1..Len(row_values) |->
        coerce_value(schema.columns[positions[k]].name,
                     schema.columns[positions[k]].data_type, row_values[k])]

FirstFailure(results) ==
    CHOOSE k \in 1..Len(results) :
        ~results[k].ok /\ \A j \in 1..(k - 1) : results[j].ok

\* the value list laid out in the order it was written, Null after it
MutantPrepareRowInListOrder(schema, table, positions, expected_len, with_columns, row_idx, row_values) ==
    IF Len(row_values) # expected_len
    THEN Err("WriteError", <<"INSERT row arity differs", row_idx, Len(row_values)>>)
    ELSE LET cells == CoerceCells(schema, positions, row_values)
         IN  IF \E k \in 1..Len(cells) : ~cells[k].ok
             THEN cells[FirstFailure(cells)]
             ELSE Ok([col \in 1..Len(schema.columns) |->
                        IF col <= Len(cells) THEN cells[col].val ELSE NullV])

\* one value list of an INSERT, given the schema positions its cells go to
PrepareRow(schema, table, positions, expected_len, with_columns, row_idx, row_values) ==
    IF Len(row_values) # expected_len
    THEN Err("WriteError",
             <<IF with_columns THEN "INSERT row arity differs from column list"
               ELSE "INSERT row arity differs from table", row_idx, Len(row_values)>>)
    ELSE LET cells == CoerceCells(schema, positions, row_values)
         IN  IF \E k \in 1..Len(cells) : ~cells[k].ok
             THEN cells[FirstFailure(cells)]
             ELSE Ok([col \in 1..Len(schema.columns) |->
                        IF \E k \in 1..Len(positions) : positions[k] = col
                        THEN cells[CHOOSE k \in 1..Len(positions) : positions[k] = col].val
                        ELSE NullV])

prepare_insert_rows(schema, table, columns, values) ==
    LET schema_len == Len(schema.columns)
        names == ColumnNames(schema)
    IN  IF Len(columns) = 0
        THEN LET rows == [r \in 1..Len(values) |->
                            PrepareRow(schema, table, [k \in 1..schema_len |-> k],
                                       schema_len, FALSE, r, values[r])]
             IN  IF \E r \in 1..Len(rows) : ~rows[r].ok
                 THEN rows[FirstFailure(rows)]
                 ELSE Ok([r \in 1..Len(rows) |-> rows[r].val])
        ELSE IF HasDuplicate(columns)
        THEN Err("WriteError", <<"Duplicate column in INSERT", columns[FirstDuplicate(columns)]>>)
        ELSE IF \E k \in 1..Len(columns) : PositionOf(names, columns[k]) = 0
        THEN Err("WriteError", <<"Column not found", table>>)
        ELSE LET column_indices == [k \in 1..Len(columns) |-> PositionOf(names, columns[k])]
                 rows == [r \in 1..Len(values) |->
                            PrepareRow(schema, table, column_indices, Len(columns),
                                       TRUE, r, values[r])]
             IN  IF \E r \in 1..Len(rows) : ~rows[r].ok
                 THEN rows[FirstFailure(rows)]
                 ELSE Ok([r \in 1..Len(rows) |-> rows[r].val])

\* the write loop of Statement::Insert: one key and one set per prepared row
RECURSIVE WriteRows(_, _, _, _)
WriteRows(s, table, rows, timestamps) ==
    IF Len(rows) = 0 THEN s
    ELSE WriteRows(storage_set(s, generate_row_key(table, timestamps[1]), EncodeRow(rows[1])),
                   table, Tail(rows), Tail(timestamps))

\* an INSERT that validates and writes one value list at a time: the lists
\* before the offending one are stored when the error is returned
MutantExecInsertRowByRow(s, c, table, columns, values, timestamps, fault) ==
    LET schema == get_table(s, table)
    IN  IF ~schema.some THEN Outcome(NotFound(table), s, c, "none")
        ELSE LET prepared_rows == prepare_insert_rows(schema.val, table, columns, values)
                 good == {n \in 0..Len(values) :
                            prepare_insert_rows(schema.val, table, columns,
                                                SubSeq(values, 1, n)).ok}
                 before == IF good = {} THEN <<>>
                           ELSE prepare_insert_rows(
                                    schema.val, table, columns,
                                    SubSeq(values, 1,
                                           CHOOSE n \in good : \A m \in good : m <= n)).val
             IN  IF ~prepared_rows.ok
                 THEN Outcome(ErrResult(prepared_rows.err, prepared_rows.msg),
                              WriteRows(s, table, before, timestamps), c, "none")
                 ELSE Finish(WriteRows(s, table, prepared_rows.val, timestamps), c, fault,
                             [kind |-> "Inserted", table |-> table, rows |-> Len(values)])

\* Statement::Insert; timestamps[k] is what SystemTime::now() gives for row k
ExecInsert(s, c, table, columns, values, timestamps, fault) ==
    LET schema == get_table(s, table)
    IN  IF ~schema.some THEN Outcome(NotFound(table), s, c, "none")
        ELSE LET prepared_rows == prepare_insert_rows(schema.val, table, columns, values)
             IN  IF ~prepared_rows.ok
                 THEN Outcome(ErrResult(prepared_rows.err, prepared_rows.msg), s, c, "none")
                 ELSE Finish(WriteRows(s, table, prepared_rows.val, timestamps), c, fault,
                             [kind |-> "Inserted", table |-> table, rows |-> Len(values)])

\* Statement::ShowTables
ExecShowTables(s, c) ==
    Outcome([kind |-> "TableList", tables |-> list_tables(s)], s, c, "none")

\* Statement::DescribeTable
ExecDescribeTable(s, c, name) ==
    LET schema == get_table(s, name)
    IN  IF ~schema.some THEN Outcome(NotFound(name), s, c, "none")
        ELSE Outcome([kind |-> "TableDescription", table |-> name,
                      columns |-> schema.val.columns], s, c, "none")

(***************************************************************************)
(* Statement::Select.  A projection item is [item |-> "Wildcard"] or       *)
(* [item |-> "Column", name, alias]; an order clause is [column,           *)
(* ascending]; where_clause, order_by and limit are options.               *)
(***************************************************************************)
Wildcard == [item |-> "Wildcard"]
SelectColumn(name, alias) == [item |-> "Column", name |-> name, alias |-> alias]

RECURSIVE Flatten(_)
Flatten(seqs) == IF Len(seqs) = 0 THEN <<>> ELSE seqs[1] \o Flatten(Tail(seqs))

\* Executor::build_projection
build_projection(schema, projection) ==
    LET names == ColumnNames(schema)
        unknown == {k \in 1..Len(projection) :
                       projection[k].item = "Column"
                       /\ PositionOf(names, projection[k].name) = 0}
    IN  IF Len(projection) = 0
        THEN Err("ReadError", <<"SELECT projection cannot be empty">>)
        ELSE IF unknown # {}
        THEN Err("ReadError", <<"Column not found", schema.name>>)
        ELSE Ok([indices |->
                    Flatten([k \in 1..Len(projection) |->
                        IF projection[k].item = "Wildcard"
                        THEN [j \in 1..Len(names) |-> j]
                        ELSE <<PositionOf(names, projection[k].name)>>]),
                 column_names |->
                    Flatten([k \in 1..Len(projection) |->
                        IF projection[k].item = "Wildcard" THEN names
                        ELSE IF projection[k].alias.some THEN <<projection[k].alias.val>>
                        ELSE <<projection[k].name>>])])

\* the characters of a table name, for the query text
ByteChar(b) == CASE b = 58 -> ":" [] b = 97 -> "a" [] b = 98 -> "b" [] OTHER -> "?"

RECURSIVE JoinWith(_, _)
JoinWith(parts, sep) ==
    IF Len(parts) = 0 THEN <<>>
    ELSE IF Len(parts) = 1 THEN parts[1]
    ELSE parts[1] \o <<sep>> \o JoinWith(Tail(parts), sep)

\* Display of the predicate expression
RECURSIVE ExprText(_)
ExprText(expr) ==
    CASE expr.kind = "Identifier" -> <<expr.value>>
      [] expr.kind = "Value" ->
            (CASE expr.value.sql = "Number" -> expr.value.n
               [] expr.value.sql = "SingleQuotedString" -> <<"'">> \o expr.value.s \o <<"'">>
               [] expr.value.sql = "Boolean" -> <<IF expr.value.b THEN "true" ELSE "false">>
               [] OTHER -> <<"NULL">>)
      [] expr.kind = "BinaryOp" ->
            ExprText(expr.left)
            \o <<" ", CASE expr.op = "Eq" -> "=" [] expr.op = "NotEq" -> "<>"
                        [] expr.op = "Gt" -> ">" [] expr.op = "Lt" -> "<"
                        [] expr.op = "GtEq" -> ">=" [] expr.op = "LtEq" -> "<="
                        [] expr.op = "And" -> "AND" [] OTHER -> "OR", " ">>
            \o ExprText(expr.right)

\* the pieces format! and join put together for the key
KeyParts(table, projection, where_clause, order_by, limit) ==
    LET projection_str ==
            JoinWith([k \in 1..Len(projection) |->
                        IF projection[k].item = "Wildcard" THEN <<"*">>
                        ELSE IF projection[k].alias.some
                        THEN <<projection[k].name, " AS ", projection[k].alias.val>>
                        ELSE <<projection[k].name>>], ", ")
        order_str ==
            JoinWith([k \in 1..Len(order_by.val) |->
                        <<order_by.val[k].column,
                          IF order_by.val[k].ascending THEN " ASC" ELSE " DESC">>], ", ")
    IN  <<"SELECT ">> \o projection_str \o <<" FROM ">>
        \o [k \in 1..Len(table) |-> ByteChar(table[k])]
        \o (IF where_clause.some THEN <<" WHERE ">> \o ExprText(where_clause.val) ELSE <<>>)
        \o (IF order_by.some THEN <<" ORDER BY ">> \o order_str ELSE <<>>)
        \o (IF limit.some THEN <<" LIMIT ">> \o IntToText(limit.val) ELSE <<>>)

\* the characters of the words of the model (a one-character word is itself)
Chars(word) ==
    CASE word = "SELECT " -> <<"S", "E", "L", "E", "C", "T", " ">>
      [] word = " FROM " -> <<" ", "F", "R", "O", "M", " ">>
      [] word = " WHERE " -> <<" ", "W", "H", "E", "R", "E", " ">>
      [] word = " ORDER BY " -> <<" ", "O", "R", "D", "E", "R", " ", "B", "Y", " ">>
      [] word = " LIMIT " -> <<" ", "L", "I", "M", "I", "T", " ">>
      [] word = " AS " -> <<" ", "A", "S", " ">>
      [] word = " ASC" -> <<" ", "A", "S", "C">>
      [] word = " DESC" -> <<" ", "D", "E", "S", "C">>
      [] word = ", " -> <<",", " ">>
      [] word = "AND" -> <<"A", "N", "D">>
      [] word = "OR" -> <<"O", "R">>
      [] word = "<>" -> <<"<", ">">>
      [] word = ">=" -> <<">", "=">>
      [] word = "<=" -> <<"<", "=">>
      [] word = "true" -> <<"t", "r", "u", "e">>
      [] word = "false" -> <<"f", "a", "l", "s", "e">>
      [] word = "NULL" -> <<"N", "U", "L", "L">>
      [] word = "id" -> <<"i", "d">>
      [] word = "score" -> <<"s", "c", "o", "r", "e">>
      [] word = "name" -> <<"n", "a", "m", "e">>
      [] word = "age" -> <<"a", "g", "e">>
      [] word = "zip" -> <<"z", "i", "p">>
      [] word = "id DESC, id" -> <<"i", "d", " ", "D", "E", "S", "C", ",", " ", "i", "d">>
      [] OTHER -> <<word>>

\* Executor::build_cache_key: the key is a String
build_cache_key(table, projection, where_clause, order_by, limit) ==
    LET parts == KeyParts(table, projection, where_clause, order_by, limit)
    IN  Flatten([k \in 1..Len(parts) |-> Chars(parts[k])])

\* the rows of a scan that decode (filter_map(.. .ok()))
RECURSIVE DecodedRows(_)
DecodedRows(entries) ==
    IF Len(entries) = 0 THEN <<>>
    ELSE (IF DecodeRow(entries[1][2]).ok THEN <<DecodeRow(entries[1][2]).val>> ELSE <<>>)
         \o DecodedRows(Tail(entries))

\* rows.retain(|row| evaluator.evaluate(..).unwrap_or(false))
RECURSIVE Retain(_, _, _)
Retain(column_names, where_expr, rows) ==
    IF Len(rows) = 0 THEN <<>>
    ELSE LET verdict == evaluate(column_names, where_expr, rows[1])
         IN  (IF verdict.ok /\ verdict.val THEN <<rows[1]>> ELSE <<>>)
             \o Retain(column_names, where_expr, Tail(rows))

\* the comparator of rows.sort_by: -1, 0 or 1
CompareValues(a, b, ascending) ==
    LET ordering ==
            CASE a.tag = "Integer" /\ b.tag = "Integer" ->
                    IF a.i < b.i THEN -1 ELSE IF a.i > b.i THEN 1 ELSE 0
              [] a.tag = "Float" /\ b.tag = "Float" ->
                    IF a.nan \/ b.nan THEN 0
                    ELSE IF a.halves < b.halves THEN -1
                    ELSE IF a.halves > b.halves THEN 1 ELSE 0
              [] a.tag = "Text" /\ b.tag = "Text" ->
                    IF TextLess(a.s, b.s) THEN -1 ELSE IF TextLess(b.s, a.s) THEN 1 ELSE 0
              [] a.tag = "Boolean" /\ b.tag = "Boolean" ->
                    IF a.b = b.b THEN 0 ELSE IF b.b THEN -1 ELSE 1
              [] OTHER -> 0
    IN  IF ascending THEN ordering ELSE 0 - ordering

\* the comparator is a total preorder on these rows
ConsistentOrder(rows, col_idx, ascending) ==
    \A i, j, k \in 1..Len(rows) :
        LET ij == CompareValues(rows[i][col_idx], rows[j][col_idx], ascending)
            jk == CompareValues(rows[j][col_idx], rows[k][col_idx], ascending)
            ik == CompareValues(rows[i][col_idx], rows[k][col_idx], ascending)
        IN  /\ (ij = 0 /\ jk = 0) => ik = 0
            /\ (ij <= 0 /\ jk <= 0 /\ (ij < 0 \/ jk < 0)) => ik < 0

\* stable insertion: row goes after every element that is not greater than it
RECURSIVE StableSorted(_, _, _)
StableSorted(rows, col_idx, ascending) ==
    IF Len(rows) <= 1 THEN rows
    ELSE LET front == StableSorted(SubSeq(rows, 1, Len(rows) - 1), col_idx, ascending)
             row == rows[Len(rows)]
             after == {k \in 1..Len(front) :
                         CompareValues(front[k][col_idx], row[col_idx], ascending) <= 0}
             at == IF after = {} THEN 0 ELSE CHOOSE k \in after : \A j \in after : j <= k
         IN  SubSeq(front, 1, at) \o <<row>> \o SubSeq(front, at + 1, Len(front))

RowPermutations(rows) ==
    {[k \in 1..Len(rows) |-> rows[p[k]]] :
        p \in {q \in [1..Len(rows) -> 1..Len(rows)] :
                 \A i, j \in 1..Len(rows) : q[i] = q[j] => i = j}}

\* rows.sort_by(..): the stable order when the comparator is a total
\* preorder; otherwise the order is unspecified and the call may panic
SortBy(rows, col_idx, ascending) ==
    IF Len(rows) <= 1 THEN {Ok(rows)}
    ELSE IF \E k \in 1..Len(rows) : Len(rows[k]) < col_idx
    THEN {Panic("index out of bounds")}
    ELSE IF ConsistentOrder(rows, col_idx, ascending)
    THEN {Ok(StableSorted(rows, col_idx, ascending))}
    ELSE {Ok(r) : r \in RowPermutations(rows)} \cup {Panic("comparison is not a total order")}

\* a loop over the order clauses in declaration order: the rightmost key
\* is sorted last and becomes the most significant
RECURSIVE MutantOrderFromLeftmostFirst(_, _, _, _)
MutantOrderFromLeftmostFirst(column_names, order_clauses, k, rows) ==
    IF k = 0 THEN {Ok(rows)}
    ELSE LET clause == order_clauses[Len(order_clauses) - k + 1]
             col_idx == PositionOf(column_names, clause.column)
         IN  IF col_idx = 0 THEN {Err("ReadError", <<"Column not found", clause.column>>)}
             ELSE UNION {IF sorted.ok
                         THEN MutantOrderFromLeftmostFirst(column_names, order_clauses,
                                                           k - 1, sorted.val)
                         ELSE {sorted} :
                         sorted \in SortBy(rows, col_idx, clause.ascending)}

\* for order_clause in order_clauses.iter().rev(): clauses k, k-1, .., 1
RECURSIVE OrderFrom(_, _, _, _)
OrderFrom(column_names, order_clauses, k, rows) ==
    IF k = 0 THEN {Ok(rows)}
    ELSE LET col_idx == PositionOf(column_names, order_clauses[k].column)
         IN  IF col_idx = 0 THEN {Err("ReadError", <<"Column not found", order_clauses[k].column>>)}
             ELSE UNION {IF sorted.ok
                         THEN OrderFrom(column_names, order_clauses, k - 1, sorted.val)
                         ELSE {sorted} :
                         sorted \in SortBy(rows, col_idx, order_clauses[k].ascending)}

\* a LIMIT that truncates nothing
MutantTruncateKeepsAll(rows, limit) == rows

\* rows.truncate(limit_count)
Truncate(rows, limit) ==
    IF limit.some /\ limit.val < Len(rows) THEN SubSeq(rows, 1, limit.val) ELSE rows

\* the answer computed from the store: scan, decode, filter, order, limit,
\* project.  A set: one element unless an ordering is unspecified.
SelectFromStore(s, schema, plan, table, where_clause, order_by, limit) ==
    LET column_names == ColumnNames(schema)
        all_rows == scan_prefix(s, table_data_prefix(table))
        rows == DecodedRows(all_rows)
        panics == where_clause.some
                  /\ \E k \in 1..Len(rows) :
                        LET verdict == evaluate(column_names, where_clause.val, rows[k])
                        IN  ~verdict.ok /\ verdict.err = "Panic"
        filtered == IF where_clause.some THEN Retain(column_names, where_clause.val, rows)
                    ELSE rows
        ordered == IF order_by.some
                   THEN OrderFrom(column_names, order_by.val, Len(order_by.val), filtered)
                   ELSE {Ok(filtered)}
    IN  IF panics THEN {PanicResult}
        ELSE {IF ~o.ok
              THEN (IF o.err = "Panic" THEN PanicResult ELSE ErrResult(o.err, o.msg))
              ELSE LET limited == Truncate(o.val, limit)
                   IN  IF \E k \in 1..Len(limited) :
                            \E j \in 1..Len(plan.indices) : plan.indices[j] > Len(limited[k])
                       THEN PanicResult
                       ELSE [kind |-> "Selected", columns |-> plan.column_names,
                             rows |-> [k \in 1..Len(limited) |->
                                         [j \in 1..Len(plan.indices) |->
                                             limited[k][plan.indices[j]]]]] :
              o \in ordered}

\* Statement::Select: the set of outcomes of one call
ExecSelect(s, c, table, projection, where_clause, order_by, limit, fault) ==
    LET schema == get_table(s, table)
    IN  IF ~schema.some THEN {Outcome(NotFound(table), s, c, "none")}
        ELSE
        LET plan == build_projection(schema.val, projection)
            cache_key == build_cache_key(table, projection, where_clause, order_by, limit)
            looked == IF c.enabled THEN cache_get(c, cache_key, fault) ELSE Ok(None)
        IN  IF ~plan.ok THEN {Outcome(ErrResult(plan.err, plan.msg), s, c, "none")}
            ELSE IF looked.ok /\ looked.val.some
            THEN LET decoded == DecodeRows(looked.val.val)
                 IN  {Outcome([kind |-> "Selected", columns |-> plan.val.column_names,
                               rows |-> IF decoded.ok THEN decoded.val ELSE <<>>],
                              s, c, IF decoded.ok THEN "none" ELSE "corrupt")}
            ELSE {IF answer.kind # "Selected"
                  THEN Outcome(answer, s, c, IF looked.ok THEN "none" ELSE "get")
                  ELSE IF c.enabled
                  THEN Outcome(answer, s,
                               cache_put(c, cache_key, EncodeRows(answer.rows), fault).cache,
                               IF ~looked.ok THEN "get"
                               ELSE IF fault = "put" THEN "put" ELSE "none")
                  ELSE Outcome(answer, s, c, "none") :
                  answer \in SelectFromStore(s, schema.val, plan.val, table, where_clause,
                                             order_by, limit)}

(***************************************************************************)
(* Statement::DropTable, Statement::Delete, Statement::Update.             *)
(***************************************************************************)
RECURSIVE DeleteKeys(_, _)
\* a delete loop that removes no key
MutantDeleteKeysRemovesNothing(s, keys) == s

DeleteKeys(s, keys) ==
    IF Len(keys) = 0 THEN s ELSE DeleteKeys(storage_delete(s, keys[1]), Tail(keys))

KeysOf(entries) == [k \in 1..Len(entries) |-> entries[k][1]]

\* a DROP TABLE that removes the catalog entry and leaves the rows
MutantExecDropTableKeepsRows(s, c, name, if_exists, fault) ==
    LET schema == get_table(s, name)
    IN  IF ~schema.some
        THEN (IF if_exists
              THEN Outcome([kind |-> "Deleted", table |-> name, rows |-> 0], s, c, "none")
              ELSE Outcome(NotFound(name), s, c, "none"))
        ELSE LET all_rows == scan_prefix(s, table_data_prefix(name))
                 deleted_count == Len(all_rows)
             IN  Finish(drop_table(s, name), c, fault,
                        [kind |-> "Deleted", table |-> name, rows |-> deleted_count])

\* a DROP TABLE IF EXISTS that sweeps the data prefix of a missing table
MutantExecDropTableSweepsMissing(s, c, name, if_exists, fault) ==
    LET schema == get_table(s, name)
        all_rows == scan_prefix(s, table_data_prefix(name))
    IN  IF ~schema.some /\ ~if_exists THEN Outcome(NotFound(name), s, c, "none")
        ELSE Finish(drop_table(DeleteKeys(s, KeysOf(all_rows)), name), c, fault,
                    [kind |-> "Deleted", table |-> name,
                     rows |-> IF schema.some THEN Len(all_rows) ELSE 0])

\* Statement::DropTable
ExecDropTable(s, c, name, if_exists, fault) ==
    LET schema == get_table(s, name)
    IN  IF ~schema.some
        THEN (IF if_exists
              THEN Outcome([kind |-> "Deleted", table |-> name, rows |-> 0], s, c, "none")
              ELSE Outcome(NotFound(name), s, c, "none"))
        ELSE LET all_rows == scan_prefix(s, table_data_prefix(name))
                 deleted_count == Len(all_rows)
             IN  Finish(drop_table(DeleteKeys(s, KeysOf(all_rows)), name), c, fault,
                        [kind |-> "Deleted", table |-> name, rows |-> deleted_count])

\* phase 1 of DELETE .. WHERE over the scan, from entry k on: the keys
\* to delete, or the error (or panic) that ends the statement together
\* with the keys collected when it was met
RECURSIVE CollectDeletes(_, _, _, _, _)
CollectDeletes(column_names, where_expr, all_rows, k, keys_to_delete) ==
    IF k > Len(all_rows) THEN Ok(keys_to_delete)
    ELSE LET row == DecodeRow(all_rows[k][2])
         IN  IF ~row.ok
             THEN CollectDeletes(column_names, where_expr, all_rows, k + 1, keys_to_delete)
             ELSE LET verdict == evaluate(column_names, where_expr, row.val)
                  IN  IF ~verdict.ok
                      THEN [ok |-> FALSE,
                            err |-> IF verdict.err = "Panic" THEN "Panic" ELSE "ReadError",
                            msg |-> <<"WHERE clause evaluation failed">>,
                            collected |-> keys_to_delete]
                      ELSE CollectDeletes(column_names, where_expr, all_rows, k + 1,
                                          IF verdict.val
                                          THEN Append(keys_to_delete, all_rows[k][1])
                                          ELSE keys_to_delete)

\* a DELETE that deletes each matching row as it scans: the rows matched
\* before the failing one are gone when the error is returned
MutantExecDeleteOnePhase(s, c, table, where_clause, fault) ==
    LET schema == get_table(s, table)
        prefix == table_data_prefix(table)
        all_rows == scan_prefix(s, prefix)
    IN  IF ~schema.some THEN Outcome(NotFound(table), s, c, "none")
        ELSE IF where_clause.some
        THEN LET collected == CollectDeletes(ColumnNames(schema.val), where_clause.val,
                                             all_rows, 1, <<>>)
             IN  IF ~collected.ok
                 THEN Outcome(IF collected.err = "Panic" THEN PanicResult
                              ELSE ErrResult(collected.err,
                                             Append(collected.msg, Len(collected.collected))),
                              DeleteKeys(s, collected.collected), c, "none")
                 ELSE Finish(DeleteKeys(s, collected.val), c, fault,
                             [kind |-> "Deleted", table |-> table,
                              rows |-> Len(collected.val)])
        ELSE Finish(DeleteKeys(s, KeysOf(all_rows)), c, fault,
                    [kind |-> "Deleted", table |-> table, rows |-> Len(all_rows)])

\* Statement::Delete
ExecDelete(s, c, table, where_clause, fault) ==
    LET schema == get_table(s, table)
        prefix == table_data_prefix(table)
        all_rows == scan_prefix(s, prefix)
    IN  IF ~schema.some THEN Outcome(NotFound(table), s, c, "none")
        ELSE IF where_clause.some
        THEN LET collected == CollectDeletes(ColumnNames(schema.val), where_clause.val,
                                             all_rows, 1, <<>>)
             IN  IF ~collected.ok
                 THEN Outcome(IF collected.err = "Panic" THEN PanicResult
                              ELSE ErrResult(collected.err,
                                             Append(collected.msg, Len(collected.collected))),
                              s, c, "none")
                 ELSE Finish(DeleteKeys(s, collected.val), c, fault,
                             [kind |-> "Deleted", table |-> table,
                              rows |-> Len(collected.val)])
        ELSE Finish(DeleteKeys(s, KeysOf(all_rows)), c, fault,
                    [kind |-> "Deleted", table |-> table, rows |-> Len(all_rows)])

\* the assignments resolved to (column index, coerced value), or the first
\* error in assignment order
AssignmentIndices(schema, table, assignments) ==
    LET column_names == ColumnNames(schema)
        resolved == [k \in 1..Len(assignments) |->
                        LET col_idx == PositionOf(column_names, assignments[k][1])
                        IN  IF col_idx = 0
                            THEN Err("ReadError", <<"Column not found", assignments[k][1]>>)
                            ELSE LET coerced_value ==
                                         coerce_value(assignments[k][1],
                                                      schema.columns[col_idx].data_type,
                                                      assignments[k][2])
                                 IN  IF coerced_value.ok
                                     THEN Ok(<<col_idx, coerced_value.val>>)
                                     ELSE coerced_value]
    IN  IF \E k \in 1..Len(resolved) : ~resolved[k].ok
        THEN resolved[FirstFailure(resolved)]
        ELSE Ok([k \in 1..Len(resolved) |-> resolved[k].val])

\* assignments that add an integer value to the stored one instead of
\* replacing it
MutantApplyAssignmentsAdds(row, assignment_indices) ==
    IF \E n \in 1..Len(assignment_indices) : assignment_indices[n][1] > Len(row)
    THEN Err("ReadError", <<"Row data corrupted", 0, Len(row)>>)
    ELSE Ok([col \in 1..Len(row) |->
               IF \E n \in 1..Len(assignment_indices) : assignment_indices[n][1] = col
               THEN LET n == CHOOSE n \in 1..Len(assignment_indices) :
                                 assignment_indices[n][1] = col
                        v == assignment_indices[n][2]
                    IN  IF row[col].tag = "Integer" /\ v.tag = "Integer"
                        THEN IntV(row[col].i + v.i)
                        ELSE v
               ELSE row[col]])

\* the assignments applied to one row in order, or the bounds-check error
RECURSIVE ApplyAssignments(_, _)
ApplyAssignments(row, assignment_indices) ==
    IF Len(assignment_indices) = 0 THEN Ok(row)
    ELSE IF assignment_indices[1][1] > Len(row)
    THEN Err("ReadError", <<"Row data corrupted", assignment_indices[1][1], Len(row)>>)
    ELSE ApplyAssignments([row EXCEPT ![assignment_indices[1][1]] = assignment_indices[1][2]],
                          Tail(assignment_indices))

\* phase 1 of UPDATE over the scan, from entry k on: the (key, row) pairs
\* to write, or the error (or panic) that ends the statement together
\* with the pairs collected when it was met
RECURSIVE CollectUpdates(_, _, _, _, _, _)
CollectUpdates(column_names, where_clause, assignment_indices, all_rows, k, updates) ==
    IF k > Len(all_rows) THEN Ok(updates)
    ELSE LET row == DecodeRow(all_rows[k][2])
         IN  IF ~row.ok
             THEN CollectUpdates(column_names, where_clause, assignment_indices, all_rows,
                                 k + 1, updates)
             ELSE LET verdict == IF where_clause.some
                                 THEN evaluate(column_names, where_clause.val, row.val)
                                 ELSE Ok(TRUE)
                  IN  IF ~verdict.ok
                      THEN [ok |-> FALSE,
                            err |-> IF verdict.err = "Panic" THEN "Panic" ELSE "ReadError",
                            msg |-> <<"WHERE clause evaluation failed">>,
                            collected |-> updates]
                      ELSE IF ~verdict.val
                      THEN CollectUpdates(column_names, where_clause, assignment_indices,
                                          all_rows, k + 1, updates)
                      ELSE LET changed == ApplyAssignments(row.val, assignment_indices)
                           IN  IF ~changed.ok
                               THEN [ok |-> FALSE, err |-> changed.err,
                                     msg |-> changed.msg, collected |-> updates]
                               ELSE CollectUpdates(column_names, where_clause,
                                                   assignment_indices, all_rows, k + 1,
                                                   Append(updates,
                                                          <<all_rows[k][1], changed.val>>))

\* an UPDATE that writes each matching row as it scans: the rows changed
\* before the failing one are stored when the error is returned
MutantExecUpdateOnePhase(s, c, table, assignments, where_clause, fault) ==
    LET schema == get_table(s, table)
        names == [k \in 1..Len(assignments) |-> assignments[k][1]]
    IN  IF ~schema.some THEN Outcome(NotFound(table), s, c, "none")
        ELSE IF HasDuplicate(names)
        THEN Outcome(ErrResult("ReadError",
                               <<"Duplicate column assignment", names[FirstDuplicate(names)]>>),
                     s, c, "none")
        ELSE
        LET assignment_indices == AssignmentIndices(schema.val, table, assignments)
        IN  IF ~assignment_indices.ok
            THEN Outcome(ErrResult(assignment_indices.err, assignment_indices.msg), s, c, "none")
            ELSE
            LET all_rows == scan_prefix(s, table_data_prefix(table))
                updates == CollectUpdates(ColumnNames(schema.val), where_clause,
                                          assignment_indices.val, all_rows, 1, <<>>)
            IN  IF ~updates.ok
                THEN Outcome(IF updates.err = "Panic" THEN PanicResult
                             ELSE ErrResult(updates.err,
                                            Append(updates.msg, Len(updates.collected))),
                             batch_set(s, [k \in 1..Len(updates.collected) |->
                                             <<updates.collected[k][1],
                                               EncodeRow(updates.collected[k][2])>>]),
                             c, "none")
                ELSE LET batch_operations ==
                             [k \in 1..Len(updates.val) |->
                                 <<updates.val[k][1], EncodeRow(updates.val[k][2])>>]
                     IN  Finish(batch_set(s, batch_operations), c, fault,
                                [kind |-> "Updated", table |-> table,
                                 rows |-> Len(updates.val)])

\* Statement::Update
ExecUpdate(s, c, table, assignments, where_clause, fault) ==
    LET schema == get_table(s, table)
        names == [k \in 1..Len(assignments) |-> assignments[k][1]]
    IN  IF ~schema.some THEN Outcome(NotFound(table), s, c, "none")
        ELSE IF HasDuplicate(names)
        THEN Outcome(ErrResult("ReadError",
                               <<"Duplicate column assignment", names[FirstDuplicate(names)]>>),
                     s, c, "none")
        ELSE
        LET assignment_indices == AssignmentIndices(schema.val, table, assignments)
        IN  IF ~assignment_indices.ok
            THEN Outcome(ErrResult(assignment_indices.err, assignment_indices.msg), s, c, "none")
            ELSE
            LET all_rows == scan_prefix(s, table_data_prefix(table))
                updates == CollectUpdates(ColumnNames(schema.val), where_clause,
                                          assignment_indices.val, all_rows, 1, <<>>)
            IN  IF ~updates.ok
                THEN Outcome(IF updates.err = "Panic" THEN PanicResult
                             ELSE ErrResult(updates.err,
                                            Append(updates.msg, Len(updates.collected))),
                             s, c, "none")
                ELSE LET batch_operations ==
                             [k \in 1..Len(updates.val) |->
                                 <<updates.val[k][1], EncodeRow(updates.val[k][2])>>]
                     IN  Finish(batch_set(s, batch_operations), c, fault,
                                [kind |-> "Updated", table |-> table,
                                 rows |-> Len(updates.val)])

\* phase 1 of Statement::Update alone: the batch the statement is about to
\* apply, or None when it returns before phase 2
UpdateBatch(s, table, assignments, where_clause) ==
    LET schema == get_table(s, table)
        names == [k \in 1..Len(assignments) |-> assignments[k][1]]
    IN  IF ~schema.some \/ HasDuplicate(names) THEN None
        ELSE
        LET assignment_indices == AssignmentIndices(schema.val, table, assignments)
        IN  IF ~assignment_indices.ok THEN None
            ELSE
            LET all_rows == scan_prefix(s, table_data_prefix(table))
                updates == CollectUpdates(ColumnNames(schema.val), where_clause,
                                          assignment_indices.val, all_rows, 1, <<>>)
            IN  IF ~updates.ok THEN None
                ELSE Some([k \in 1..Len(updates.val) |->
                             <<updates.val[k][1], EncodeRow(updates.val[k][2])>>])

(***************************************************************************)
(* Inputs of the model.  Table "a:b" overlaps table "a" textually; "a" is  *)
(* created with two columns and "a:b" with one.                            *)
(***************************************************************************)
TableA == <<97>>              \* "a"
TableAB == <<97, 58, 98>>     \* "a:b"
TableNames == {TableA, TableAB}

SchemaOne == <<Column("id", "Integer")>>
SchemaTwo == <<Column("id", "Integer"), Column("score", "Float")>>

CreateInputs == {[name |-> TableA, columns |-> SchemaTwo],
                 [name |-> TableA, columns |-> SchemaOne],
                 [name |-> TableAB, columns |-> SchemaOne]}

One == IntV(1)
TextNaN == TextV(<<"N", "a", "N">>)

Plain(values) == [columns |-> <<>>, values |-> values]
Listed(columns, values) == [columns |-> columns, values |-> values]

InsertInputs ==
    {Plain(<<<<One>>>>), Plain(<<<<One, One>>>>), Plain(<<<<One, TextNaN>>>>),
     Plain(<<<<TextNaN>>>>),
     Plain(<<<<One>>, <<One>>>>), Plain(<<<<One, One>>, <<One, One>>>>),
     Plain(<<<<One>>, <<TextNaN>>>>), Plain(<<<<One, One>>, <<One>>>>),
     Listed(<<"id">>, <<<<One>>>>), Listed(<<"score">>, <<<<One>>>>),
     Listed(<<"id">>, <<<<One>>, <<One, One>>>>),
     Listed(<<"id", "id">>, <<<<One, One>>>>)}

Timestamps(n) == [1..n -> 1..MaxTime]

IdIs(n) == BinaryOp(Identifier("id"), "Eq", Literal(SqlNumber(n)))

WhereInputs == {None, Some(IdIs(<<"1">>)), Some(IdIs(<<"2">>))}

AssignmentInputs ==
    {<<<<"id", One>>>>, <<<<"id", TextNaN>>>>, <<<<"score", TextNaN>>>>,
     <<<<"id", One>>, <<"id", One>>>>}

Query(projection, where_clause, order_by, limit) ==
    [projection |-> projection, where_clause |-> where_clause,
     order_by |-> order_by, limit |-> limit]

IdDescending == Some(<<[column |-> "id", ascending |-> FALSE]>>)

Queries ==
    {Query(<<Wildcard>>, None, None, None),
     Query(<<SelectColumn("id", Some("n"))>>, Some(IdIs(<<"1">>)), IdDescending,
           Some(MaxLimit))}

(***************************************************************************)
(* State machine: Init is the state after Executor::new on an empty store; *)
(* each action is one call of Executor::execute.                           *)
(***************************************************************************)
EmptyStore == <<>>

\* no UPDATE of another thread is running
Idle == [phase |-> "idle"]

\* nothing flushed, no other thread
Quiet ==
    /\ disk = EmptyStore
    /\ inflight = Idle
    /\ observed = None

Init ==
    /\ Quiet
    /\ store = EmptyStore
    /\ cache = NoCache
    /\ lastStmt = [kind |-> "None"]
    /\ lastResult = [kind |-> "None"]
    /\ lastFault = "none"

\* one execute call: what it returns and what it leaves
Effects(stmt, outcome) ==
    /\ store' = outcome.store
    /\ cache' = outcome.cache
    /\ lastStmt' = stmt
    /\ lastResult' = outcome.result
    /\ lastFault' = outcome.fault

\* a call on a temporary store (StorageEngine::memory) with no other thread
Returns(stmt, outcome) ==
    /\ Effects(stmt, outcome)
    /\ UNCHANGED <<disk, inflight, observed>>

\* the CREATE TABLE statement, with what the DROP TABLE of the same name
\* that directly preceded it removed (history for the properties)
CreateStmt(name, columns) ==
    [kind |-> "CreateTable", table |-> name, columns |-> columns,
     after_drop |-> IF /\ lastStmt.kind = "DropTable"
                       /\ lastStmt.table = name
                       /\ lastStmt.existed
                       /\ lastResult.kind = "Deleted"
                    THEN Some([rows |-> lastResult.rows, arity |-> lastStmt.arity])
                    ELSE None]

\* the DROP TABLE statement, with whether the table existed and how many
\* columns it had (history for the properties)
DropStmt(name, if_exists) ==
    [kind |-> "DropTable", table |-> name, if_exists |-> if_exists,
     existed |-> get_table(store, name).some,
     arity |-> IF get_table(store, name).some
               THEN Len(get_table(store, name).val.columns) ELSE 0]

CreateTable(name, columns, fault) ==
    Returns(CreateStmt(name, columns),
            ExecCreateTable(store, cache, name, columns, fault))

Insert(table, columns, values, timestamps, fault) ==
    Returns([kind |-> "Insert", table |-> table],
            ExecInsert(store, cache, table, columns, values, timestamps, fault))

Select(table, q, fault) ==
    \E outcome \in ExecSelect(store, cache, table, q.projection, q.where_clause,
                              q.order_by, q.limit, fault) :
        Returns([kind |-> "Select", table |-> table, query |-> q], outcome)

DropTable(name, if_exists, fault) ==
    Returns(DropStmt(name, if_exists),
            ExecDropTable(store, cache, name, if_exists, fault))

ShowTables ==
    Returns([kind |-> "ShowTables"], ExecShowTables(store, cache))

DescribeTable(name) ==
    Returns([kind |-> "DescribeTable", table |-> name],
            ExecDescribeTable(store, cache, name))

Delete(table, where_clause, fault) ==
    Returns([kind |-> "Delete", table |-> table],
            ExecDelete(store, cache, table, where_clause, fault))

Update(table, assignments, where_clause, fault) ==
    Returns([kind |-> "Update", table |-> table],
            ExecUpdate(store, cache, table, assignments, where_clause, fault))

Next ==
    \/ \E c \in CreateInputs : CreateTable(c.name, c.columns, "none")
    \/ \E table \in TableNames, i \in InsertInputs :
          \E timestamps \in Timestamps(Len(i.values)) :
              Insert(table, i.columns, i.values, timestamps, "none")
    \/ \E table \in TableNames, q \in Queries : Select(table, q, "none")
    \/ \E name \in TableNames, if_exists \in BOOLEAN : DropTable(name, if_exists, "none")
    \/ \E table \in TableNames, where_clause \in WhereInputs :
          Delete(table, where_clause, "none")
    \/ \E table \in TableNames, assignments \in AssignmentInputs, where_clause \in WhereInputs :
          Update(table, assignments, where_clause, "none")
    \/ ShowTables
    \/ \E name \in TableNames : DescribeTable(name)

Spec == Init /\ [][Next]_vars

(***************************************************************************)
(* The executor built with with_cache(): the same calls with a result      *)
(* cache whose operations can fail.                                        *)
(***************************************************************************)
CacheInserts == {Plain(<<<<One>>>>), Plain(<<<<One, One>>>>)}
CacheWheres == {None, Some(IdIs(<<"2">>))}
CacheAssignments == {<<<<"id", One>>>>}
MutationFaults == {"none", "clear"}
SelectFaults == {"none", "get", "put", "corrupt"}
CacheQueries == {Query(<<Wildcard>>, None, None, None)}

InitCache ==
    /\ Quiet
    /\ store = EmptyStore
    /\ cache = EmptyCache
    /\ lastStmt = [kind |-> "None"]
    /\ lastResult = [kind |-> "None"]
    /\ lastFault = "none"

NextCache ==
    \/ \E c \in CreateInputs, fault \in MutationFaults : CreateTable(c.name, c.columns, fault)
    \/ \E table \in TableNames, i \in CacheInserts, fault \in MutationFaults :
          \E timestamps \in Timestamps(Len(i.values)) :
              Insert(table, i.columns, i.values, timestamps, fault)
    \/ \E table \in TableNames, q \in CacheQueries, fault \in SelectFaults :
          Select(table, q, fault)
    \/ \E name \in TableNames, if_exists \in BOOLEAN, fault \in MutationFaults :
          DropTable(name, if_exists, fault)
    \/ \E table \in TableNames, where_clause \in CacheWheres, fault \in MutationFaults :
          Delete(table, where_clause, fault)
    \/ \E table \in TableNames, assignments \in CacheAssignments,
          where_clause \in CacheWheres, fault \in MutationFaults :
          Update(table, assignments, where_clause, fault)
    \/ ShowTables
    \/ \E name \in TableNames : DescribeTable(name)

SpecCache == InitCache /\ [][NextCache]_vars

(***************************************************************************)
(* Two threads on one sled tree.  One runs statements through the          *)
(* executor; its UPDATE is seen in two steps, the scan that collects the   *)
(* batch and the apply_batch that writes it.  The other thread reads the   *)
(* tree between any two steps.                                             *)
(***************************************************************************)
ConcurrentInserts == {Plain(<<<<One, One>>>>), Plain(<<<<IntV(2), One>>>>)}
ConcurrentAssignments == {<<<<"score", IntV(2)>>>>, <<<<"id", IntV(2)>>, <<"score", IntV(2)>>>>}
ConcurrentWheres == {None, Some(IdIs(<<"1">>))}

\* a statement that runs while no UPDATE is between its two steps
Alone(stmt, outcome) ==
    /\ inflight.phase # "scanned"
    /\ Effects(stmt, outcome)
    /\ inflight' = Idle
    /\ observed' = None
    /\ UNCHANGED disk

\* phase 1 of an UPDATE that reaches phase 2: the batch is collected
UpdateScan(table, assignments, where_clause) ==
    LET batch == UpdateBatch(store, table, assignments, where_clause)
    IN  /\ inflight.phase # "scanned"
        /\ batch.some
        /\ inflight' = [phase |-> "scanned", table |-> table, batch |-> batch.val,
                        before |-> store]
        /\ observed' = None
        /\ UNCHANGED <<store, cache, lastStmt, lastResult, lastFault, disk>>

\* an UPDATE that returns from phase 1
UpdateRefused(table, assignments, where_clause) ==
    /\ ~UpdateBatch(store, table, assignments, where_clause).some
    /\ Alone([kind |-> "Update", table |-> table],
             ExecUpdate(store, cache, table, assignments, where_clause, "none"))

\* phase 2 of the UPDATE: self.storage.batch_set(batch_operations), then Ok
UpdateApply ==
    /\ inflight.phase = "scanned"
    /\ store' = batch_set(store, inflight.batch)
    /\ lastStmt' = [kind |-> "Update", table |-> inflight.table]
    /\ lastResult' = [kind |-> "Updated", table |-> inflight.table,
                      rows |-> Len(inflight.batch)]
    /\ lastFault' = "none"
    /\ inflight' = [inflight EXCEPT !.phase = "applied"]
    /\ UNCHANGED <<cache, disk, observed>>

\* the other thread scans the table the UPDATE works on
ReaderScan ==
    /\ inflight.phase \in {"scanned", "applied"}
    /\ observed' = Some(scan_prefix(store, table_data_prefix(inflight.table)))
    /\ UNCHANGED <<store, cache, lastStmt, lastResult, lastFault, disk, inflight>>

NextConcurrent ==
    \/ Alone(CreateStmt(TableA, SchemaTwo),
             ExecCreateTable(store, cache, TableA, SchemaTwo, "none"))
    \/ \E i \in ConcurrentInserts : \E timestamps \in Timestamps(Len(i.values)) :
          Alone([kind |-> "Insert", table |-> TableA],
                ExecInsert(store, cache, TableA, i.columns, i.values, timestamps, "none"))
    \/ \E assignments \in ConcurrentAssignments, where_clause \in ConcurrentWheres :
          \/ UpdateScan(TableA, assignments, where_clause)
          \/ UpdateRefused(TableA, assignments, where_clause)
    \/ UpdateApply
    \/ ReaderScan

SpecConcurrent == Init /\ [][NextConcurrent]_vars

(***************************************************************************)
(* The executor over a disk-backed store (StorageEngine::new).  A flush    *)
(* makes the whole tree durable; a crash brings back the tree as of the    *)
(* last flush.                                                             *)
(***************************************************************************)
DiskInserts == {Plain(<<<<One>>>>), Plain(<<<<One, One>>>>)}
DiskWheres == {None, Some(IdIs(<<"1">>))}
DiskAssignments == {<<<<"id", IntV(2)>>>>}

\* whether the last store write of a call that returned result was flushed;
\* a call that wrote nothing flushed nothing
LastWriteFlushed(result) ==
    CASE result.kind = "Created" -> Flushes("set")
      [] result.kind = "Inserted" -> result.rows > 0 /\ Flushes("set")
      [] result.kind = "Updated" -> result.rows > 0 /\ Flushes("batch_set")
      [] result.kind = "Deleted" -> Flushes("delete")
      [] OTHER -> FALSE

\* one execute call on the disk-backed store
OnDisk(stmt, outcome) ==
    /\ Effects(stmt, outcome)
    /\ disk' = IF LastWriteFlushed(outcome.result) THEN outcome.store ELSE disk
    /\ UNCHANGED <<inflight, observed>>

\* StorageEngine::flush, called by the application
Flush ==
    /\ disk' = store
    /\ lastStmt' = [kind |-> "Flush"]
    /\ lastResult' = [kind |-> "Flushed"]
    /\ UNCHANGED <<store, cache, lastFault, inflight, observed>>

\* the process stops and the store is opened again
Crash ==
    /\ store' = disk
    /\ lastStmt' = [kind |-> "Crash"]
    /\ lastResult' = [kind |-> "Reopened"]
    /\ UNCHANGED <<cache, lastFault, disk, inflight, observed>>

NextDisk ==
    \/ \E c \in CreateInputs :
          OnDisk(CreateStmt(c.name, c.columns),
                 ExecCreateTable(store, cache, c.name, c.columns, "none"))
    \/ \E table \in TableNames, i \in DiskInserts :
          \E timestamps \in Timestamps(Len(i.values)) :
              OnDisk([kind |-> "Insert", table |-> table],
                     ExecInsert(store, cache, table, i.columns, i.values, timestamps, "none"))
    \/ \E table \in TableNames, assignments \in DiskAssignments, where_clause \in DiskWheres :
          OnDisk([kind |-> "Update", table |-> table],
                 ExecUpdate(store, cache, table, assignments, where_clause, "none"))
    \/ \E table \in TableNames, where_clause \in DiskWheres :
          OnDisk([kind |-> "Delete", table |-> table],
                 ExecDelete(store, cache, table, where_clause, "none"))
    \/ \E name \in TableNames, if_exists \in BOOLEAN :
          OnDisk(DropStmt(name, if_exists),
                 ExecDropTable(store, cache, name, if_exists, "none"))
    \/ Flush
    \/ Crash

SpecDisk == Init /\ [][NextDisk]_vars

(***************************************************************************)
(* SELECT over one table with up to SelectTimes rows: CREATE TABLE a       *)
(* (id INTEGER, score FLOAT), inserts of rows that tie on one column and   *)
(* differ on the other, and queries with a filter, one or two order keys   *)
(* and a limit.                                                            *)
(***************************************************************************)
SelectInserts ==
    {Plain(<<<<IntV(1), IntV(1)>>>>), Plain(<<<<IntV(2), IntV(1)>>>>),
     Plain(<<<<IntV(2), IntV(2)>>>>), Listed(<<"id">>, <<<<One>>>>)}

OrderKey(column, ascending) == [column |-> column, ascending |-> ascending]

SelectOrders ==
    {Some(<<OrderKey("id", TRUE)>>), Some(<<OrderKey("id", FALSE)>>),
     Some(<<OrderKey("score", FALSE)>>)}
        \cup {Some(<<OrderKey("id", TRUE), OrderKey("score", FALSE)>>),
              Some(<<OrderKey("score", FALSE), OrderKey("id", TRUE)>>),
              Some(<<OrderKey("id", FALSE), OrderKey("score", FALSE)>>)}

SelectLimits == {None} \cup {Some(n) : n \in 0..SelectLimit}

SelectQueries ==
    {Query(<<Wildcard>>, None, o, l) : o \in SelectOrders, l \in SelectLimits}
        \cup {Query(<<Wildcard>>, Some(IdIs(<<"2">>)), o, l) :
                 o \in {Some(<<OrderKey("score", FALSE)>>),
                        Some(<<OrderKey("score", FALSE), OrderKey("id", TRUE)>>)},
                 l \in SelectLimits}

NextSelect ==
    \/ CreateTable(TableA, SchemaTwo, "none")
    \/ \E i \in SelectInserts : \E timestamps \in [1..Len(i.values) -> 1..SelectTimes] :
          Insert(TableA, i.columns, i.values, timestamps, "none")
    \/ \E q \in SelectQueries : Select(TableA, q, "none")

SpecSelect == Init /\ [][NextSelect]_vars

(***************************************************************************)
(* INSERT with a column list into CREATE TABLE a (id INTEGER, name TEXT,   *)
(* age INTEGER): every duplicate-free column list in every order, a        *)
(* duplicated and an unknown column, and value lists of the right and the  *)
(* wrong length.  The statement record keeps the statement's arguments.    *)
(***************************************************************************)
SchemaThree == <<Column("id", "Integer"), Column("name", "Text"), Column("age", "Integer")>>

ColumnLists ==
    {c \in UNION {[1..n -> {"id", "name", "age"}] : n \in 1..3} :
        \A i, j \in 1..Len(c) : c[i] = c[j] => i = j}

\* the k-th value written in a value list
Written == <<IntV(1), TextV(<<"2">>), IntV(3)>>

ListedInserts ==
    {Listed(c, <<SubSeq(Written, 1, Len(c))>>) : c \in ColumnLists}
        \cup {Plain(<<Written>>),
              Listed(<<"age", "id">>, <<<<IntV(1), IntV(2)>>, <<IntV(3), IntV(4)>>>>),
              Listed(<<"id", "id">>, <<<<IntV(1), IntV(2)>>>>),
              Listed(<<"id", "zip">>, <<<<IntV(1), IntV(2)>>>>),
              Listed(<<"name", "id">>, <<<<IntV(1)>>>>),
              Listed(<<"name", "id">>, <<<<TextV(<<"x">>), TextV(<<"x">>)>>>>)}

InsertInto(table, columns, values, timestamps) ==
    Returns([kind |-> "Insert", table |-> table, columns |-> columns,
             values |-> values, timestamps |-> timestamps],
            ExecInsert(store, cache, table, columns, values, timestamps, "none"))

NextInsert ==
    \/ CreateTable(TableA, SchemaThree, "none")
    \/ \E i \in ListedInserts : \E timestamps \in [1..Len(i.values) -> 1..MaxTime] :
          InsertInto(TableA, i.columns, i.values, timestamps)

SpecInsert == Init /\ [][NextInsert]_vars

(***************************************************************************)
(* Executor::coerce_value as a function: a call on every column type and   *)
(* on values of every tag, and a second call on the value the first        *)
(* returned.                                                               *)
(***************************************************************************)
DataTypes == {"Integer", "Float", "Text", "Boolean", "Null"}

CoerceTexts ==
    {<<>>, <<"0">>, <<"1">>, <<"2">>, <<"-", "1">>, <<"+", "2">>, <<"1", ".", "5">>,
     <<"1", " ">>, <<"x">>, <<"N", "a", "N">>, <<"t", "r", "u", "e">>,
     <<" ", "T", "R", "U", "E", " ">>, <<"F", "a", "l", "s", "e">>,
     <<"f", "a", "l", "s", "e", " ">>, <<"t">>}

CoerceValues ==
    {NullV, NaNV, BoolV(TRUE), BoolV(FALSE)}
        \cup {IntV(i) : i \in -1..2}
        \cup {FloatV(h) : h \in -2..4}
        \cup {TextV(t) : t \in CoerceTexts}

CoerceCall(column_name, expected, value) ==
    [kind |-> "coerce_value", column_name |-> column_name,
     expected |-> expected, value |-> value]

InitCoerce ==
    /\ Quiet
    /\ store = EmptyStore
    /\ cache = NoCache
    /\ lastStmt \in {CoerceCall(n, t, v) :
                        n \in {"id", "score"}, t \in DataTypes, v \in CoerceValues}
    /\ lastResult = [kind |-> "None"]
    /\ lastFault = "none"

\* the call
Coerce ==
    /\ lastResult.kind = "None"
    /\ lastResult' = [kind |-> "Coerced",
                      first |-> coerce_value(lastStmt.column_name, lastStmt.expected,
                                             lastStmt.value),
                      again |-> None]
    /\ UNCHANGED <<store, cache, lastStmt, lastFault, disk, inflight, observed>>

\* the same call on the value the first call returned
CoerceAgain ==
    /\ lastResult.kind = "Coerced"
    /\ lastResult.first.ok
    /\ lastResult.again = None
    /\ lastResult' = [lastResult EXCEPT
                        !.again = Some(coerce_value(lastStmt.column_name,
                                                    lastStmt.expected,
                                                    lastResult.first.val))]
    /\ UNCHANGED <<store, cache, lastStmt, lastFault, disk, inflight, observed>>

NextCoerce == Coerce \/ CoerceAgain

SpecCoerce == InitCoerce /\ [][NextCoerce]_vars

(***************************************************************************)
(* ExpressionEvaluator::evaluate as a function: one call on a predicate    *)
(* over the column x of a one-column row.  The predicates are comparisons  *)
(* of x with a literal in both orders, LIKE on texts and patterns with     *)
(* wildcards and with characters that mean something in a regular          *)
(* expression, BETWEEN with every pair of literal bounds, and IN with      *)
(* lists of up to two literals and with an unknown column in the list.     *)
(***************************************************************************)
EvalValues ==
    {IntV(1), IntV(2), IntV(3), FloatV(2), FloatV(3), NaNV, TextV(<<>>), TextV(<<"a">>),
     TextV(<<"a", "b">>), TextV(<<"b">>), BoolV(TRUE), BoolV(FALSE), NullV}

EvalLiterals ==
    {Literal(SqlNumber(<<"1">>)), Literal(SqlNumber(<<"2">>)), Literal(SqlNumber(<<"3">>)),
     Literal(SqlNumber(<<"1", ".", "0">>)), Literal(SqlNumber(<<"1", ".", "5">>)),
     Literal(SqlString(<<>>)), Literal(SqlString(<<"a">>)),
     Literal(SqlString(<<"a", "b">>)), Literal(SqlString(<<"b">>)),
     Literal(SqlBoolean(TRUE)), Literal(SqlNull)}

ComparisonOps == {"Eq", "NotEq", "Lt", "LtEq", "Gt", "GtEq"}

LikeTexts ==
    {<<>>, <<"a">>, <<"A">>, <<"b">>, <<"a", "b">>, <<"a", "b", "c">>, <<"a", ".", "c">>,
     <<"a", "a">>, <<"a", "*">>, <<"(">>, <<"%">>, <<"_">>, <<"a", "\n">>}

LikePatterns ==
    {<<>>, <<"a">>, <<"A">>, <<"%">>, <<"_">>, <<"a", "%">>, <<"%", "b">>, <<"%", "b", "%">>,
     <<"a", "_", "c">>, <<"_", "%">>, <<"a", ".", "c">>, <<"a", "*">>, <<"(">>}

EvalCall(expr, value) ==
    [kind |-> "evaluate", column_names |-> <<"x">>, expr |-> expr, row_values |-> <<value>>]

X == Identifier("x")

EvalComparisons ==
    {BinaryOp(X, op, l) : op \in ComparisonOps, l \in EvalLiterals}
        \cup {BinaryOp(l, op, X) : op \in ComparisonOps, l \in EvalLiterals}

EvalLikes ==
    {Like(negated, X, Literal(SqlString(p))) : negated \in BOOLEAN, p \in LikePatterns}
        \cup {Like(negated, X, Literal(SqlNumber(<<"1">>))) : negated \in BOOLEAN}

EvalBetweens ==
    {Between(X, negated, low, high) :
        negated \in BOOLEAN, low \in EvalLiterals, high \in EvalLiterals}

EvalLists ==
    {<<>>} \cup {<<l>> : l \in EvalLiterals}
        \cup {<<l, m>> : l \in EvalLiterals, m \in EvalLiterals}
        \cup {<<Literal(SqlNumber(<<"1">>)), Identifier("zip")>>,
              <<Identifier("zip"), Literal(SqlNumber(<<"1">>))>>}

EvalInLists == {InList(X, list, negated) : list \in EvalLists, negated \in BOOLEAN}

\* operands of AND and OR: true or false by the value of x, an error on a
\* value of another tag
EvalOperands ==
    {BinaryOp(X, "Eq", Literal(SqlNumber(<<"1">>))),
     BinaryOp(X, "NotEq", Literal(SqlNumber(<<"1">>))),
     BinaryOp(X, "Eq", Literal(SqlString(<<"a">>))),
     InList(X, <<Literal(SqlNumber(<<"1">>)), Literal(SqlString(<<"a">>))>>, FALSE),
     X}

EvalConnectives ==
    {BinaryOp(p, op, q) : p \in EvalOperands, op \in {"And", "Or"}, q \in EvalOperands}

InitEval ==
    /\ Quiet
    /\ store = EmptyStore
    /\ cache = NoCache
    /\ lastStmt \in {EvalCall(e, v) :
                        e \in EvalComparisons \cup EvalBetweens \cup EvalInLists
                                \cup EvalConnectives,
                        v \in EvalValues}
                    \cup {EvalCall(e, v) :
                            e \in EvalLikes,
                            v \in {TextV(t) : t \in LikeTexts} \cup {IntV(1), NullV}}
    /\ lastResult = [kind |-> "None"]
    /\ lastFault = "none"

\* the call
Evaluate ==
    /\ lastResult.kind = "None"
    /\ lastResult' = [kind |-> "Evaluated",
                      result |-> evaluate(lastStmt.column_names, lastStmt.expr,
                                          lastStmt.row_values)]
    /\ UNCHANGED <<store, cache, lastStmt, lastFault, disk, inflight, observed>>

NextEval == Evaluate

SpecEval == InitEval /\ [][NextEval]_vars

(***************************************************************************)
(* UPDATE, DELETE and SELECT on table a (id INTEGER, score FLOAT) beside   *)
(* table a:b (id INTEGER).  Table a holds rows that match id = 1, rows     *)
(* that do not, a row whose id is NULL and a row whose score NaN was       *)
(* stored as JSON null, which does not decode.  The statement record keeps *)
(* the statement's arguments, and for an UPDATE whether it repeats the     *)
(* statement that has just succeeded.                                      *)
(***************************************************************************)
MutateInserts ==
    {Plain(<<<<IntV(1), IntV(1)>>>>), Plain(<<<<IntV(2), IntV(1)>>>>),
     Plain(<<<<IntV(1), TextNaN>>>>), Listed(<<"score">>, <<<<One>>>>)}

ScoreIs(n) == BinaryOp(Identifier("score"), "Eq", Literal(SqlNumber(n)))

MutateWheres == {None, Some(IdIs(<<"1">>)), Some(ScoreIs(<<"1", ".", "0">>))}

MutateAssignments ==
    {<<<<"id", IntV(2)>>>>, <<<<"score", IntV(2)>>>>, <<<<"id", NullV>>>>,
     <<<<"id", TextV(<<"x">>)>>>>, <<<<"id", One>>, <<"id", One>>>>,
     <<<<"zip", One>>>>}

UpdateStmt(table, assignments, where_clause) ==
    [kind |-> "Update", table |-> table, assignments |-> assignments,
     where_clause |-> where_clause,
     repeats |-> /\ lastStmt.kind = "Update"
                 /\ lastStmt.table = table
                 /\ lastStmt.assignments = assignments
                 /\ lastStmt.where_clause = where_clause
                 /\ lastResult.kind = "Updated"]

UpdateWith(table, assignments, where_clause) ==
    Returns(UpdateStmt(table, assignments, where_clause),
            ExecUpdate(store, cache, table, assignments, where_clause, "none"))

DeleteWhere(table, where_clause) ==
    Returns([kind |-> "Delete", table |-> table, where_clause |-> where_clause],
            ExecDelete(store, cache, table, where_clause, "none"))

NextMutate ==
    \/ CreateTable(TableA, SchemaTwo, "none")
    \/ CreateTable(TableAB, SchemaOne, "none")
    \/ \E i \in MutateInserts : \E timestamps \in Timestamps(Len(i.values)) :
          Insert(TableA, i.columns, i.values, timestamps, "none")
    \/ Insert(TableAB, <<>>, <<<<One>>>>, <<1>>, "none")
    \/ \E assignments \in MutateAssignments, where_clause \in MutateWheres :
          UpdateWith(TableA, assignments, where_clause)
    \/ \E where_clause \in MutateWheres : DeleteWhere(TableA, where_clause)
    \/ \E where_clause \in MutateWheres :
          Select(TableA, Query(<<Wildcard>>, where_clause, None, None), "none")

SpecMutate == Init /\ [][NextMutate]_vars

(***************************************************************************)
(* Typed columns: table a with one column v of each declared type, Null    *)
(* included, beside table a:b (v TEXT); INSERT and UPDATE with literals of *)
(* every tag; DESCRIBE of a.                                               *)
(***************************************************************************)
TypedSchemas == {<<Column("v", data_type)>> : data_type \in DataTypes}

SchemaText == <<Column("v", "Text")>>

TypedValues ==
    {IntV(1), IntV(2), FloatV(2), FloatV(3), TextV(<<"1">>), TextV(<<"x">>), BoolV(TRUE),
     NullV}

NextTyped ==
    \/ \E columns \in TypedSchemas : CreateTable(TableA, columns, "none")
    \/ CreateTable(TableAB, SchemaText, "none")
    \/ \E value \in TypedValues, timestamp \in 1..MaxTime :
          Insert(TableA, <<>>, <<<<value>>>>, <<timestamp>>, "none")
    \/ Insert(TableAB, <<>>, <<<<TextV(<<"x">>)>>>>, <<1>>, "none")
    \/ \E value \in TypedValues : UpdateWith(TableA, <<<<"v", value>>>>, None)
    \/ DescribeTable(TableA)

SpecTyped == Init /\ [][NextTyped]_vars

(***************************************************************************)
(* Projection with a result cache: table a is created with one column or   *)
(* with two, dropped and created again; SELECT projects all columns, a     *)
(* named column with and without an alias, a column beside the wildcard,   *)
(* nothing, and a column the table does not have.  The cache can fail to   *)
(* clear.                                                                  *)
(***************************************************************************)
ProjectSchemas == {SchemaOne, SchemaTwo}

ProjectInserts == {<<<<One>>>>, <<<<IntV(2), IntV(3)>>>>}

Projections ==
    {<<Wildcard>>, <<SelectColumn("id", Some("n"))>>, <<SelectColumn("score", None)>>,
     <<SelectColumn("id", None), Wildcard>>, <<>>, <<SelectColumn("zip", None)>>}

NextProject ==
    \/ \E columns \in ProjectSchemas, fault \in MutationFaults :
          CreateTable(TableA, columns, fault)
    \/ \E values \in ProjectInserts, timestamp \in 1..MaxTime :
          Insert(TableA, <<>>, values, <<timestamp>>, "none")
    \/ \E fault \in MutationFaults : DropTable(TableA, FALSE, fault)
    \/ \E projection \in Projections :
          Select(TableA, Query(projection, None, None, None), "none")

SpecProject == InitCache /\ [][NextProject]_vars

(***************************************************************************)
(* Cache keys: tables a and a:b (id INTEGER) under an executor with a      *)
(* cache; SELECT statements on a that differ in projection, alias,         *)
(* predicate, order keys and limit, one of them ordered by a column whose  *)
(* name holds the text of two order keys.  Each statement record keeps,    *)
(* for every cache entry, the SELECT that stored it (history for the       *)
(* properties).                                                            *)
(***************************************************************************)
KeyQueries ==
    {Query(<<Wildcard>>, None, None, None),
     Query(<<SelectColumn("id", Some("n"))>>, None, None, None),
     Query(<<Wildcard>>, Some(IdIs(<<"1">>)), None, None),
     Query(<<Wildcard>>, None,
           Some(<<[column |-> "id", ascending |-> FALSE],
                  [column |-> "id", ascending |-> TRUE]>>), None),
     Query(<<Wildcard>>, None,
           Some(<<[column |-> "id DESC, id", ascending |-> TRUE]>>), None),
     Query(<<Wildcard>>, None, None, Some(1))}

\* the SELECT that stored each entry of the cache
Storers == IF lastStmt.kind = "None" THEN <<>> ELSE lastStmt.storers

KeyOf(shape) ==
    build_cache_key(shape.table, shape.query.projection, shape.query.where_clause,
                    shape.query.order_by, shape.query.limit)

\* a call with the history after it: entries that stay keep their SELECT,
\* a new entry belongs to the statement that stored it
Keyed(stmt, outcome) ==
    Returns([kind |-> stmt.kind, table |-> stmt.table, query |-> stmt.query,
             hit |-> stmt.kind = "Select" /\ KeyOf(stmt) \in DOMAIN cache.entries,
             storers |-> [key \in DOMAIN outcome.cache.entries |->
                            IF key \in DOMAIN Storers THEN Storers[key]
                            ELSE [table |-> stmt.table, query |-> stmt.query]]],
            outcome)

NextKeys ==
    \/ \E name \in TableNames :
          Keyed([kind |-> "CreateTable", table |-> name, query |-> None],
                ExecCreateTable(store, cache, name, SchemaOne, "none"))
    \/ \E value \in {One, IntV(2)}, timestamp \in 1..MaxTime :
          Keyed([kind |-> "Insert", table |-> TableA, query |-> None],
                ExecInsert(store, cache, TableA, <<>>, <<<<value>>>>, <<timestamp>>, "none"))
    \/ \E q \in KeyQueries :
          \E outcome \in ExecSelect(store, cache, TableA, q.projection, q.where_clause,
                                    q.order_by, q.limit, "none") :
              Keyed([kind |-> "Select", table |-> TableA, query |-> q], outcome)
    \/ \E outcome \in ExecSelect(store, cache, TableAB, <<Wildcard>>, None, None, None,
                                 "none") :
          Keyed([kind |-> "Select", table |-> TableAB,
                 query |-> Query(<<Wildcard>>, None, None, None)], outcome)

SpecKeys == InitCache /\ [][NextKeys]_vars

(***************************************************************************)
(* ORDER BY on a column that holds NULL: table a (id INTEGER, score FLOAT) *)
(* with rows of score 1 and 2 and rows inserted with the column list (id), *)
(* whose score is NULL, in every insertion order; SELECT ordered by score  *)
(* ascending.                                                              *)
(***************************************************************************)
NullInserts ==
    {Plain(<<<<One, IntV(1)>>>>), Plain(<<<<One, IntV(2)>>>>), Listed(<<"id">>, <<<<One>>>>)}

ScoreAscending == Query(<<Wildcard>>, None, Some(<<OrderKey("score", TRUE)>>), None)

NextNulls ==
    \/ CreateTable(TableA, SchemaTwo, "none")
    \/ \E i \in NullInserts, timestamp \in 1..SelectTimes :
          Insert(TableA, i.columns, i.values, <<timestamp>>, "none")
    \/ Select(TableA, ScoreAscending, "none")

SpecNulls == Init /\ [][NextNulls]_vars

(***************************************************************************)
(* DROP TABLE seen one storage call at a time, over tables a and a:b with  *)
(* a result cache: the scan of the data prefix, one storage.delete per     *)
(* scanned key, catalog.drop_table, invalidate_cache.  Every storage call  *)
(* can return a sled error, which ends the statement where it stands.      *)
(* Other statements run between two DROPs.                                 *)
(***************************************************************************)
DropPhases == {"deleting", "dropped"}

\* a DROP TABLE that put the catalog entry before the row keys
MutantDropWriteCatalogFirst(s, drop) == drop_table(s, drop.table)

\* the store after the next storage call of the DROP in progress:
\* for (key, _) in &all_rows { self.storage.delete(key)?; }, then
\* self.catalog.drop_table(&name)?
DropWrite(s, drop) ==
    IF Len(drop.keys) > 0 THEN storage_delete(s, drop.keys[1])
    ELSE drop_table(s, drop.table)

\* a statement that runs while no DROP is in progress
Between2Drops(action) == inflight = Idle /\ action

\* DROP TABLE of a table the catalog has: the scan of its data prefix
DropScan(name, if_exists) ==
    LET all_rows == scan_prefix(store, table_data_prefix(name))
    IN  /\ inflight = Idle
        /\ get_table(store, name).some
        /\ inflight' = [phase |-> "deleting", table |-> name, keys |-> KeysOf(all_rows),
                        rows |-> Len(all_rows)]
        /\ lastStmt' = DropStmt(name, if_exists)
        /\ lastResult' = [kind |-> "Running"]
        /\ UNCHANGED <<store, cache, lastFault, disk, observed>>

\* DROP TABLE of a table the catalog does not have returns at once
DropRefused(name, if_exists) ==
    /\ ~get_table(store, name).some
    /\ Between2Drops(DropTable(name, if_exists, "none"))

\* the next storage call of the DROP in progress succeeds
DropStep ==
    /\ inflight.phase = "deleting"
    /\ store' = DropWrite(store, inflight)
    /\ inflight' = IF Len(inflight.keys) > 0
                   THEN [inflight EXCEPT !.keys = Tail(inflight.keys)]
                   ELSE [inflight EXCEPT !.phase = "dropped"]
    /\ UNCHANGED <<cache, lastStmt, lastResult, lastFault, disk, observed>>

\* the next storage call of the DROP in progress fails: the ? returns the
\* error (From<sled::Error> gives WriteError)
DropAbort ==
    /\ inflight.phase = "deleting"
    /\ lastResult' = ErrResult("WriteError", <<"sled">>)
    /\ inflight' = Idle
    /\ UNCHANGED <<store, cache, lastStmt, lastFault, disk, observed>>

\* self.invalidate_cache()?; Ok(Deleted { table, rows: deleted_count })
DropInvalidate(fault) ==
    LET outcome == Finish(store, cache, fault,
                          [kind |-> "Deleted", table |-> inflight.table,
                           rows |-> inflight.rows])
    IN  /\ inflight.phase = "dropped"
        /\ cache' = outcome.cache
        /\ lastResult' = outcome.result
        /\ lastFault' = outcome.fault
        /\ inflight' = Idle
        /\ UNCHANGED <<store, lastStmt, disk, observed>>

NextDrop ==
    \/ Between2Drops(CreateTable(TableA, SchemaOne, "none"))
    \/ Between2Drops(CreateTable(TableAB, SchemaOne, "none"))
    \/ \E table \in TableNames, timestamp \in 1..MaxTime :
          Between2Drops(Insert(table, <<>>, <<<<One>>>>, <<timestamp>>, "none"))
    \/ \E table \in TableNames :
          Between2Drops(Select(table, Query(<<Wildcard>>, None, None, None), "none"))
    \/ \E name \in TableNames, if_exists \in BOOLEAN :
          \/ DropScan(name, if_exists)
          \/ DropRefused(name, if_exists)
    \/ DropStep
    \/ DropAbort
    \/ \E fault \in MutationFaults : DropInvalidate(fault)

SpecDrop == InitCache /\ [][NextDrop]_vars

(***************************************************************************)
(* Two executors on clones of one StorageEngine (one sled tree), neither   *)
(* with a cache.  The first runs statements and its UPDATE is seen in two  *)
(* steps, scan and batch_set; between the two the second executor runs a   *)
(* whole DROP TABLE or DELETE on the same table.                           *)
(***************************************************************************)
\* the second executor's statement, run between scan and batch_set of the
\* first executor's UPDATE: what it returned and the row keys it removed
Interleaved(stmt, outcome) ==
    /\ inflight.phase = "scanned"
    /\ observed = None
    /\ store' = outcome.store
    /\ observed' = Some([stmt |-> stmt, result |-> outcome.result,
                         removed |-> {k \in DOMAIN store :
                                        /\ StartsWith(k, table_data_prefix(inflight.table))
                                        /\ k \notin DOMAIN outcome.store}])
    /\ UNCHANGED <<cache, lastStmt, lastResult, lastFault, disk, inflight>>

OtherDropTable ==
    Interleaved([kind |-> "DropTable", table |-> inflight.table],
                ExecDropTable(store, NoCache, inflight.table, FALSE, "none"))

OtherDelete(where_clause) ==
    Interleaved([kind |-> "Delete", table |-> inflight.table],
                ExecDelete(store, NoCache, inflight.table, where_clause, "none"))

NextShared ==
    \/ Alone(CreateStmt(TableA, SchemaTwo),
             ExecCreateTable(store, cache, TableA, SchemaTwo, "none"))
    \/ \E i \in ConcurrentInserts : \E timestamps \in Timestamps(Len(i.values)) :
          Alone([kind |-> "Insert", table |-> TableA],
                ExecInsert(store, cache, TableA, i.columns, i.values, timestamps, "none"))
    \/ \E assignments \in ConcurrentAssignments, where_clause \in ConcurrentWheres :
          \/ UpdateScan(TableA, assignments, where_clause)
          \/ UpdateRefused(TableA, assignments, where_clause)
    \/ OtherDropTable
    \/ \E where_clause \in ConcurrentWheres : OtherDelete(where_clause)
    \/ UpdateApply

SpecShared == Init /\ [][NextShared]_vars

(***************************************************************************)
(* Properties.                                                             *)
(***************************************************************************)
DataKeys(s, table) == {k \in DOMAIN s : StartsWith(k, table_data_prefix(table))}

\* what an executor without a cache answers to the last SELECT on this store
CachelessAnswers ==
    {o.result : o \in ExecSelect(store, NoCache, lastStmt.table, lastStmt.query.projection,
                                 lastStmt.query.where_clause, lastStmt.query.order_by,
                                 lastStmt.query.limit, "none")}

Succeeded == lastResult.kind \in {"Created", "Inserted", "Updated", "Deleted", "Selected"}

\* C1: every SELECT answered by the cache-enabled executor is an answer the
\* cache-less executor gives on the same store.
C1_CachedSelectEqualsCacheless ==
    (lastStmt.kind = "Select" /\ cache.enabled) => lastResult \in CachelessAnswers

\* C2: when CREATE TABLE, INSERT, UPDATE, DELETE or DROP TABLE of an existing
\* table returns success, the result cache holds no entry.
C2_SuccessfulMutationLeavesCacheEmpty ==
    (/\ lastStmt.kind \in {"CreateTable", "Insert", "Update", "Delete", "DropTable"}
     /\ lastStmt.kind = "DropTable" => lastStmt.existed
     /\ Succeeded)
    => DOMAIN cache.entries = {}

\* an UPDATE that matched no row returned success on the cache-enabled executor
C2_Witness ==
    /\ cache.enabled
    /\ lastStmt.kind = "Update"
    /\ lastResult.kind = "Updated"
    /\ lastResult.rows = 0
    /\ DataKeys(store, lastStmt.table) # {}

\* C3: an UPDATE that returns an error detected by the executor changes no
\* stored value.
C3_FailedUpdateWritesNothing ==
    [][(/\ lastStmt'.kind = "Update"
        /\ lastResult'.kind = "Err"
        /\ lastResult'.msg # <<"CacheError">>)
       => store' = store]_vars

\* an UPDATE failed on a row after an earlier row of the scan had matched
C3_Witness ==
    /\ lastStmt.kind = "Update"
    /\ lastResult.kind = "Err"
    /\ lastResult.msg[1] \in {"WHERE clause evaluation failed", "Row data corrupted"}
    /\ lastResult.msg[Len(lastResult.msg)] >= 1

\* C4: a DELETE whose predicate fails on some row returns an error and
\* deletes nothing.
C4_FailedDeleteDeletesNothing ==
    [][(lastStmt'.kind = "Delete" /\ lastResult'.kind = "Err"
        /\ lastResult'.msg # <<"CacheError">>)
       => store' = store]_vars

\* a DELETE failed on a row after an earlier row of the scan had matched
C4_Witness ==
    /\ lastStmt.kind = "Delete"
    /\ lastResult.kind = "Err"
    /\ lastResult.msg[1] = "WHERE clause evaluation failed"
    /\ lastResult.msg[2] >= 1

\* C5: an INSERT that returns a validation error stores no row of the
\* statement.
C5_FailedInsertWritesNothing ==
    [][(lastStmt'.kind = "Insert" /\ lastResult'.kind = "Err"
        /\ lastResult'.msg # <<"CacheError">>)
       => store' = store]_vars

\* an INSERT failed on its second value list, in a table that exists
C5_Witness ==
    /\ lastStmt.kind = "Insert"
    /\ lastResult.kind = "Err"
    /\ lastResult.msg[1] \in {"INSERT row arity differs from table",
                              "INSERT row arity differs from column list"}
    /\ lastResult.msg[2] = 2

\* C6: after a successful DROP TABLE of an existing table T, T has no catalog
\* key and no key under its data prefix, SHOW TABLES does not list it, and
\* Deleted{rows} is the number of row keys the statement removed.
C6_DropRemovesSchemaAndRows ==
    [][(lastStmt'.kind = "DropTable" /\ lastStmt'.existed /\ lastResult'.kind = "Deleted")
       => /\ table_key(lastStmt'.table) \notin DOMAIN store'
          /\ DataKeys(store', lastStmt'.table) = {}
          /\ \A k \in 1..Len(list_tables(store')) : list_tables(store')[k] # lastStmt'.table
          /\ lastResult'.rows =
                Cardinality({k \in DOMAIN store \ DOMAIN store' : StartsWith(k, DATA_PREFIX)})
          /\ DOMAIN store' \subseteq DOMAIN store]_vars

\* a DROP TABLE removed rows
C6_Witness ==
    /\ lastStmt.kind = "DropTable"
    /\ lastStmt.existed
    /\ lastResult.kind = "Deleted"
    /\ lastResult.rows >= 2

\* the row keys INSERT writes for a table: its prefix and a timestamp
InsertedKeys(table) == {generate_row_key(table, t) : t \in 1..MaxTime}

\* C7: the prefix scan of a table yields only row keys that INSERT wrote for
\* that table, whatever the names of the tables.
C7_PrefixScanIsolatesTables ==
    \A table \in TableNames : DataKeys(store, table) \subseteq InsertedKeys(table)

\* C8: a successful INSERT of n value lists into a table that held m rows
\* leaves it with m + n rows, whatever the timestamps.
C8_InsertAddsEveryRow ==
    [][(lastStmt'.kind = "Insert" /\ lastResult'.kind = "Inserted")
       => Cardinality(DataKeys(store', lastStmt'.table))
            = Cardinality(DataKeys(store, lastStmt'.table)) + lastResult'.rows]_vars

\* C9: every row stored under the data prefix of a table with a schema has
\* as many values as the schema has columns.
C9_StoredRowsHaveSchemaArity ==
    \A table \in TableNames :
        get_table(store, table).some =>
            \A k \in DataKeys(store, table) :
                Len(store[k].values) = Len(get_table(store, table).val.columns)

\* C10: a call during which a result-cache operation failed returns what it
\* returns without the failure: a SELECT the answer computed from the store,
\* a mutating statement success.
C10_CacheFailureDegradesToMiss ==
    lastFault # "none" =>
        IF lastStmt.kind = "Select" THEN lastResult \in CachelessAnswers
        ELSE lastResult.kind # "Err"

\* C11: INSERT, SELECT, UPDATE, DELETE, DESCRIBE and DROP TABLE without IF
\* EXISTS on a name with no catalog entry return the read error "Table not
\* found" and leave store and cache as they were; on a name with a catalog
\* entry none of them returns that error.
C11_AddressableIffCatalogEntry ==
    [][(/\ lastStmt'.kind \in {"Insert", "Select", "Update", "Delete", "DescribeTable",
                               "DropTable"}
        /\ lastStmt'.kind = "DropTable" => ~lastStmt'.if_exists)
       => IF table_key(lastStmt'.table) \in DOMAIN store
          THEN lastResult' # ErrResult("ReadError", <<"Table not found", lastStmt'.table>>)
          ELSE /\ lastResult' = ErrResult("ReadError", <<"Table not found", lastStmt'.table>>)
               /\ store' = store
               /\ cache' = cache]_vars

\* a SELECT on a missing table was refused while another table has rows and
\* the cache holds an entry
C11_Witness ==
    /\ lastStmt.kind = "Select"
    /\ table_key(lastStmt.table) \notin DOMAIN store
    /\ lastResult = ErrResult("ReadError", <<"Table not found", lastStmt.table>>)
    /\ DOMAIN cache.entries # {}
    /\ \E k \in DOMAIN store : StartsWith(k, DATA_PREFIX)

SelectAll(s, table) ==
    {o.result : o \in ExecSelect(s, NoCache, table, <<Wildcard>>, None, None, None, "none")}

\* C13: DROP TABLE of an existing table succeeds, and a CREATE TABLE of the
\* same name that directly follows it succeeds and leaves a table on which
\* SELECT * returns no row, whatever the rows and schema it had before.
C13_RecreatedTableIsEmpty ==
    /\ (lastStmt.kind = "DropTable" /\ lastStmt.existed) => lastResult.kind = "Deleted"
    /\ (lastStmt.kind = "CreateTable" /\ lastStmt.after_drop.some)
        => /\ lastResult = [kind |-> "Created", table |-> lastStmt.table]
           /\ \A answer \in SelectAll(store, lastStmt.table) :
                  answer.kind = "Selected" /\ answer.rows = <<>>

\* a table that held rows was dropped and created again with another schema
C13_Witness ==
    /\ lastStmt.kind = "CreateTable"
    /\ lastStmt.after_drop.some
    /\ lastStmt.after_drop.val.rows >= 1
    /\ lastStmt.after_drop.val.arity # Len(lastStmt.columns)
    /\ lastResult.kind = "Created"

\* C14: on a table without a catalog entry DROP TABLE IF EXISTS returns
\* Deleted{rows: 0}, DROP TABLE returns the read error, and neither writes
\* nor deletes a key of the store.
C14_DropMissingTableIsNoOp ==
    [][(lastStmt'.kind = "DropTable" /\ table_key(lastStmt'.table) \notin DOMAIN store)
       => /\ store' = store
          /\ lastResult' = IF lastStmt'.if_exists
                           THEN [kind |-> "Deleted", table |-> lastStmt'.table, rows |-> 0]
                           ELSE ErrResult("ReadError",
                                          <<"Table not found", lastStmt'.table>>)]_vars

\* DROP TABLE IF EXISTS met a missing table whose data prefix holds keys
C14_Witness ==
    /\ lastStmt.kind = "DropTable"
    /\ lastStmt.if_exists
    /\ ~lastStmt.existed
    /\ lastResult = [kind |-> "Deleted", table |-> lastStmt.table, rows |-> 0]
    /\ DataKeys(store, lastStmt.table) # {}

\* the value the reader saw under key, or None
SeenAt(key) ==
    IF \E k \in 1..Len(observed.val) : observed.val[k][1] = key
    THEN Some(observed.val[CHOOSE k \in 1..Len(observed.val) : observed.val[k][1] = key][2])
    ELSE None

C16_SuccessMeansFlushed ==
    lastResult.kind \in {"Created", "Inserted", "Updated", "Deleted"} => disk = store

\* a is below b in the order defined within one tag
ValueBelow(a, b) ==
    CASE a.tag = "Integer" /\ b.tag = "Integer" -> a.i < b.i
      [] a.tag = "Float" /\ b.tag = "Float" -> a.halves < b.halves
      [] a.tag = "Text" /\ b.tag = "Text" -> TextLess(a.s, b.s)
      [] a.tag = "Boolean" /\ b.tag = "Boolean" -> ~a.b /\ b.b
      [] OTHER -> FALSE

\* row x comes before row y by the order keys from key k on, leftmost first
RECURSIVE RowBelow(_, _, _, _, _)
RowBelow(x, y, names, keys, k) ==
    IF k > Len(keys) THEN FALSE
    ELSE LET col == PositionOf(names, keys[k].column)
             lower == IF keys[k].ascending THEN ValueBelow(x[col], y[col])
                      ELSE ValueBelow(y[col], x[col])
             higher == IF keys[k].ascending THEN ValueBelow(y[col], x[col])
                       ELSE ValueBelow(x[col], y[col])
         IN  lower \/ (~higher /\ RowBelow(x, y, names, keys, k + 1))

\* the rows of the last SELECT's table that pass its filter, in scan order
FilteredRows ==
    LET schema == get_table(store, lastStmt.table).val
        rows == DecodedRows(scan_prefix(store, table_data_prefix(lastStmt.table)))
    IN  IF lastStmt.query.where_clause.some
        THEN Retain(ColumnNames(schema), lastStmt.query.where_clause.val, rows)
        ELSE rows

\* every order key of the last SELECT holds a non-null value in every
\* filtered row
KeysComparable ==
    LET names == ColumnNames(get_table(store, lastStmt.table).val)
        keys == lastStmt.query.order_by.val
    IN  \A r \in 1..Len(FilteredRows), k \in 1..Len(keys) :
            FilteredRows[r][PositionOf(names, keys[k].column)].tag # "Null"

\* the filtered rows ordered by the keys, ties in scan order, cut at the limit
OrderedAnswers ==
    LET names == ColumnNames(get_table(store, lastStmt.table).val)
        keys == lastStmt.query.order_by.val
        rows == FilteredRows
        m == Len(rows)
        n == IF lastStmt.query.limit.some /\ lastStmt.query.limit.val < m
             THEN lastStmt.query.limit.val ELSE m
        orders == {p \in [1..m -> 1..m] :
                     \A i, j \in 1..m :
                        i < j => \/ RowBelow(rows[p[i]], rows[p[j]], names, keys, 1)
                                 \/ /\ ~RowBelow(rows[p[j]], rows[p[i]], names, keys, 1)
                                    /\ p[i] < p[j]}
    IN  {[i \in 1..n |-> rows[p[i]]] : p \in orders}

\* the last statement is a SELECT * with order keys on an existing table
OrderedSelect ==
    /\ lastStmt.kind = "Select"
    /\ get_table(store, lastStmt.table).some
    /\ lastStmt.query.order_by.some
    /\ lastStmt.query.projection = <<Wildcard>>

\* C17: SELECT * .. ORDER BY k [ASC|DESC] [LIMIT n] on a key without NULLs
\* returns the filtered rows in non-decreasing (DESC: non-increasing) order
\* of k, rows with equal k in scan order, cut to the first n.
C17_OrderByLimitReturnsFirstN ==
    (OrderedSelect /\ Len(lastStmt.query.order_by.val) = 1 /\ KeysComparable)
    => /\ lastResult.kind = "Selected"
       /\ lastResult.rows \in OrderedAnswers

\* ORDER BY id DESC LIMIT 1 chose among three rows, two of them tied on the
\* largest id, after a filter had removed nothing
C17_Witness ==
    /\ OrderedSelect
    /\ lastStmt.query.order_by.val = <<OrderKey("id", FALSE)>>
    /\ lastStmt.query.limit = Some(1)
    /\ KeysComparable
    /\ Len(FilteredRows) = 3
    /\ FilteredRows = <<<<IntV(1), FloatV(2)>>, <<IntV(2), FloatV(2)>>,
                        <<IntV(2), FloatV(4)>>>>
    /\ lastResult.kind = "Selected"
    /\ lastResult.rows = <<FilteredRows[2]>>

\* C18: SELECT * with several order keys on columns without NULLs returns
\* the rows ordered by the first key on which two rows differ, in that key's
\* direction, rows equal on all keys in scan order.
C18_OrderByIsLexicographic ==
    (OrderedSelect /\ Len(lastStmt.query.order_by.val) >= 2 /\ KeysComparable)
    => /\ lastResult.kind = "Selected"
       /\ lastResult.rows \in OrderedAnswers

\* ORDER BY id ASC, score DESC reordered three rows of which two tie on id
C18_Witness ==
    /\ OrderedSelect
    /\ lastStmt.query.order_by.val = <<OrderKey("id", TRUE), OrderKey("score", FALSE)>>
    /\ lastStmt.query.limit = None
    /\ KeysComparable
    /\ FilteredRows = <<<<IntV(2), FloatV(2)>>, <<IntV(2), FloatV(4)>>,
                        <<IntV(1), FloatV(2)>>>>
    /\ lastResult.kind = "Selected"
    /\ lastResult.rows = <<<<IntV(1), FloatV(2)>>, <<IntV(2), FloatV(4)>>,
                           <<IntV(2), FloatV(2)>>>>

\* the row a value list of the last INSERT describes: each schema column
\* holds the value written for its name, coerced to its type, or Null
ListedRow(schema, columns, row_values) ==
    [col \in 1..Len(schema.columns) |->
        IF \E k \in 1..Len(columns) : columns[k] = schema.columns[col].name
        THEN LET k == CHOOSE k \in 1..Len(columns) : columns[k] = schema.columns[col].name
             IN  coerce_value(schema.columns[col].name, schema.columns[col].data_type,
                              row_values[k]).val
        ELSE NullV]

\* C19: a successful INSERT with a column list stores, under the key of every
\* value list, a row of the schema's arity that holds each written value at
\* the schema position of its column and Null at every unlisted column.
C19_ColumnListPlacesBySchemaPosition ==
    [][(/\ lastStmt'.kind = "Insert"
        /\ "columns" \in DOMAIN lastStmt'
        /\ lastStmt'.columns # <<>>
        /\ lastResult'.kind = "Inserted")
       => LET schema == get_table(store, lastStmt'.table).val
          IN  \A r \in 1..Len(lastStmt'.values) :
                LET key == generate_row_key(lastStmt'.table, lastStmt'.timestamps[r])
                IN  /\ key \in DOMAIN store'
                    /\ DecodeRow(store'[key]).ok
                    /\ Len(DecodeRow(store'[key]).val) = Len(schema.columns)
                    /\ \E w \in 1..Len(lastStmt'.values) :
                          /\ lastStmt'.timestamps[w] = lastStmt'.timestamps[r]
                          /\ DecodeRow(store'[key]).val
                               = ListedRow(schema, lastStmt'.columns,
                                           lastStmt'.values[w])]_vars

\* INSERT INTO a (name, id) VALUES (1, '2') stored (2, '1', NULL)
C19_Witness ==
    /\ lastStmt.kind = "Insert"
    /\ "columns" \in DOMAIN lastStmt
    /\ lastStmt.columns = <<"name", "id">>
    /\ lastResult.kind = "Inserted"
    /\ DecodeRow(store[generate_row_key(TableA, lastStmt.timestamps[1])])
         = Ok(<<IntV(2), TextV(<<"1">>), NullV>>)

\* s without its leading and trailing spaces
Stripped(s) ==
    LET inner == {k \in 1..Len(s) : s[k] # " "}
    IN  IF inner = {} THEN <<>>
        ELSE SubSeq(s, CHOOSE k \in inner : \A j \in inner : k <= j,
                       CHOOSE k \in inner : \A j \in inner : k >= j)

\* s is an optional sign followed by one or more digits
IntegerText(s) ==
    LET digits == IF Len(s) > 0 /\ s[1] \in {"-", "+"} THEN Tail(s) ELSE s
    IN  Len(digits) > 0 /\ \A k \in 1..Len(digits) : IsDigit(digits[k])

\* the type-mismatch error of a call
Mismatch(call) ==
    Err("WriteError", <<"Type mismatch", call.column_name, call.expected, call.value.tag>>)

\* C20: coerce_value returns Null for Null; for any other value a value of
\* the column's type or a write error naming the column (the type-mismatch
\* error for the four types of the table); Integer->Boolean accepts only 0
\* and 1, Text->Boolean only the trimmed lower-cased texts true, 1, false, 0;
\* Boolean->Integer gives 0 or 1; Text->Integer succeeds exactly on integer
\* texts; ->Text never fails; a second coercion returns the value unchanged.
C20_CoercerFollowsTable ==
    lastResult.kind = "Coerced" =>
        LET call == lastStmt
            value == call.value
            r == lastResult.first
            normalized == ToLowercase(Stripped(IF value.tag = "Text" THEN value.s ELSE <<>>))
        IN  /\ value.tag = "Null" => r = Ok(NullV)
            /\ (value.tag # "Null" /\ call.expected # "Null")
                    => (r = Mismatch(call) \/ (r.ok /\ r.val.tag = call.expected))
            /\ (value.tag # "Null" /\ call.expected = "Null")
                    => (~r.ok /\ r.err = "WriteError"
                        /\ \E k \in 1..Len(r.msg) : r.msg[k] = call.column_name)
            /\ (value.tag = "Integer" /\ call.expected = "Boolean")
                    => r = (IF value.i = 0 THEN Ok(BoolV(FALSE))
                            ELSE IF value.i = 1 THEN Ok(BoolV(TRUE))
                            ELSE Mismatch(call))
            /\ (value.tag = "Text" /\ call.expected = "Boolean")
                    => r = (IF normalized \in {<<"t", "r", "u", "e">>, <<"1">>}
                            THEN Ok(BoolV(TRUE))
                            ELSE IF normalized \in {<<"f", "a", "l", "s", "e">>, <<"0">>}
                            THEN Ok(BoolV(FALSE))
                            ELSE Mismatch(call))
            /\ (value.tag = "Boolean" /\ call.expected = "Integer")
                    => r = Ok(IntV(IF value.b THEN 1 ELSE 0))
            /\ (value.tag = "Text" /\ call.expected = "Integer")
                    => (r.ok <=> IntegerText(value.s))
            /\ call.expected = "Text" => r.ok
            /\ lastResult.again.some => lastResult.again.val = r

\* ' TRUE ' went to a BOOLEAN column and came out true, twice
C20_Witness ==
    /\ lastResult.kind = "Coerced"
    /\ lastStmt.expected = "Boolean"
    /\ lastStmt.value = TextV(<<" ", "T", "R", "U", "E", " ">>)
    /\ lastResult.first = Ok(BoolV(TRUE))
    /\ lastResult.again = Some(Ok(BoolV(TRUE)))

\* the keys INSERT writes for a table
RowKeys(table) == {generate_row_key(table, t) : t \in 1..MaxTime}

\* the predicate of the last statement holds for the row stored at key
\* (every row when the statement has no predicate)
Selects(s, key) ==
    IF ~lastStmt'.where_clause.some THEN TRUE
    ELSE /\ DecodeRow(s[key]).ok
         /\ evaluate(ColumnNames(get_table(s, lastStmt'.table).val),
                     lastStmt'.where_clause.val, DecodeRow(s[key]).val) = Ok(TRUE)

\* the stored row with the assignments of the last UPDATE applied
Assigned(s, key) ==
    LET schema == get_table(s, lastStmt'.table).val
        old == s[key].values
        a == lastStmt'.assignments
    IN  [doc |-> "Row",
         values |-> [col \in 1..Len(old) |->
            IF \E n \in 1..Len(a) : a[n][1] = schema.columns[col].name
            THEN LET n == CHOOSE n \in 1..Len(a) : a[n][1] = schema.columns[col].name
                 IN  EncodeValue(coerce_value(a[n][1], schema.columns[col].data_type,
                                              a[n][2]).val)
            ELSE old[col]]]

\* C21: a successful UPDATE of table T keeps the set of keys, changes nothing
\* outside the rows of T, rewrites each row of T that the predicate selects
\* with only the assigned columns changed, keeps the other rows of T, and
\* reports the number of rows of T the predicate selects.
C21_UpdateChangesOnlyWhatIsAsked ==
    [][(lastStmt'.kind = "Update" /\ lastResult'.kind = "Updated")
       => LET own == RowKeys(lastStmt'.table) \cap DOMAIN store
          IN  /\ DOMAIN store' = DOMAIN store
              /\ \A key \in DOMAIN store \ own : store'[key] = store[key]
              /\ \A key \in own :
                    store'[key] = IF Selects(store, key) THEN Assigned(store, key)
                                  ELSE store[key]
              /\ lastResult'.rows = Cardinality({key \in own : Selects(store, key)})]_vars

\* C22: a successful DELETE on table T removes exactly the rows of T that the
\* predicate selects (every row of T without a predicate), leaves every other
\* key and value of the store as it was, the catalog entry of T included, and
\* reports the number of keys it removed.
C22_DeleteRemovesExactlyTheMatches ==
    [][(lastStmt'.kind = "Delete" /\ lastResult'.kind = "Deleted")
       => LET own == RowKeys(lastStmt'.table) \cap DOMAIN store
              removed == {key \in own : Selects(store, key)}
          IN  /\ DOMAIN store' = DOMAIN store \ removed
              /\ \A key \in DOMAIN store' : store'[key] = store[key]
              /\ table_key(lastStmt'.table) \in DOMAIN store'
              /\ lastResult'.rows = Cardinality(DOMAIN store \ DOMAIN store')]_vars

\* C23: an UPDATE that repeats, with the same table, assignments and
\* predicate, the UPDATE that has just succeeded leaves every stored key and
\* value as the first execution left it.
C23_RepeatedUpdateChangesNothing ==
    [][(lastStmt'.kind = "Update" /\ lastStmt'.repeats) => store' = store]_vars

\* UPDATE a SET score = 2 WHERE id = 1 ran twice and matched a row both times
C23_Witness ==
    /\ lastStmt.kind = "Update"
    /\ lastStmt.repeats
    /\ lastStmt.assignments = <<<<"score", IntV(2)>>>>
    /\ lastStmt.where_clause = Some(IdIs(<<"1">>))
    /\ lastResult.kind = "Updated"
    /\ lastResult.rows >= 1

\* the keys under the table's data prefix whose value decodes as a row
Decodable(s, table) == {key \in DataKeys(s, table) : DecodeRow(s[key]).ok}

\* C24: a SELECT without a predicate on a table succeeds and returns one row
\* per stored value that decodes; an UPDATE, or a DELETE with a predicate,
\* that returns success has met no stored value that does not decode.
C24_UndecodableRowFatalForWrites ==
    [][/\ (/\ lastStmt'.kind = "Select"
            /\ get_table(store, lastStmt'.table).some
            /\ ~lastStmt'.query.where_clause.some)
           => /\ lastResult'.kind = "Selected"
              /\ Len(lastResult'.rows) = Cardinality(Decodable(store, lastStmt'.table))
       /\ (\/ lastStmt'.kind = "Update" /\ lastResult'.kind = "Updated"
           \/ /\ lastStmt'.kind = "Delete" /\ lastResult'.kind = "Deleted"
              /\ lastStmt'.where_clause.some)
           => Decodable(store, lastStmt'.table) = DataKeys(store, lastStmt'.table)]_vars

\* the assignment list of the last UPDATE names a column twice, names a
\* column the table does not have, or holds a value its column does not take
InvalidAssignments(s) ==
    LET schema == get_table(s, lastStmt'.table).val
        a == lastStmt'.assignments
        names == ColumnNames(schema)
    IN  \/ \E j, k \in 1..Len(a) : j < k /\ a[j][1] = a[k][1]
        \/ \E n \in 1..Len(a) : \A col \in 1..Len(names) : names[col] # a[n][1]
        \/ \E n \in 1..Len(a), col \in 1..Len(names) :
              /\ names[col] = a[n][1]
              /\ ~coerce_value(a[n][1], schema.columns[col].data_type, a[n][2]).ok

\* C25: an UPDATE on an existing table whose assignment list names a column
\* twice, names an unknown column or holds an uncoercible value returns an
\* error of kind Write and changes nothing.
C25_InvalidAssignmentIsWriteError ==
    [][(/\ lastStmt'.kind = "Update"
        /\ get_table(store, lastStmt'.table).some
        /\ InvalidAssignments(store))
       => /\ lastResult'.kind = "Err"
          /\ lastResult'.err = "WriteError"
          /\ store' = store]_vars

\* the predicate of the last statement fails on some decodable stored row
PredicateFails(s, where_clause) ==
    /\ get_table(s, lastStmt'.table).some
    /\ where_clause.some
    /\ \E key \in Decodable(s, lastStmt'.table) :
          ~evaluate(ColumnNames(get_table(s, lastStmt'.table).val),
                    where_clause.val, DecodeRow(s[key]).val).ok

\* C26: a SELECT * whose predicate fails on some row succeeds and returns
\* exactly the rows on which the predicate is true; an UPDATE with valid
\* assignments or a DELETE whose predicate fails on some row does not succeed
\* and writes nothing.
C26_PredicateErrorOmitsRowInSelect ==
    [][/\ (/\ lastStmt'.kind = "Select"
            /\ PredicateFails(store, lastStmt'.query.where_clause))
           => LET matching == {key \in Decodable(store, lastStmt'.table) :
                                 evaluate(ColumnNames(get_table(store, lastStmt'.table).val),
                                          lastStmt'.query.where_clause.val,
                                          DecodeRow(store[key]).val) = Ok(TRUE)}
              IN  /\ lastResult'.kind = "Selected"
                  /\ Len(lastResult'.rows) = Cardinality(matching)
                  /\ \A i \in 1..Len(lastResult'.rows) :
                        \E key \in matching :
                            lastResult'.rows[i] = DecodeRow(store[key]).val
       /\ (/\ lastStmt'.kind \in {"Update", "Delete"}
           /\ PredicateFails(store, lastStmt'.where_clause)
           /\ lastStmt'.kind = "Update" => ~InvalidAssignments(store))
           => /\ lastResult'.kind \notin {"Updated", "Deleted"}
              /\ store' = store]_vars

Evaluated(kind) ==
    /\ lastStmt.kind = "evaluate"
    /\ lastStmt.expr.kind = kind
    /\ lastResult.kind = "Evaluated"

\* the value of an operand of the call
OperandOf(s, expr) == extract_value(s.column_names, expr, s.row_values).val

IsError(result) == ~result.ok /\ result.err # "Panic"

\* a before b, byte by byte
RECURSIVE BytesBelow(_, _)
BytesBelow(a, b) ==
    IF Len(b) = 0 THEN FALSE
    ELSE IF Len(a) = 0 THEN TRUE
    ELSE IF a[1] = b[1] THEN BytesBelow(Tail(a), Tail(b))
    ELSE CharCode(a[1]) < CharCode(b[1])

\* what the operator says of two operands, the first below the second, equal
\* to it, or neither
Relates(op, below, equal) ==
    CASE op = "Eq" -> equal
      [] op = "NotEq" -> ~equal
      [] op = "Lt" -> below
      [] op = "LtEq" -> below \/ equal
      [] op = "Gt" -> ~below /\ ~equal
      [] op = "GtEq" -> ~below

ComparisonAsSpecified(left, op, right, result) ==
    CASE left.tag # right.tag -> IsError(result)
      [] left.tag = "Null" ->
            IF op = "Eq" THEN result = Ok(TRUE)
            ELSE IF op = "NotEq" THEN result = Ok(FALSE)
            ELSE IsError(result)
      [] left.tag = "Integer" ->
            result = Ok(Relates(op, left.i < right.i, left.i = right.i))
      [] left.tag = "Text" ->
            result = Ok(Relates(op, BytesBelow(left.s, right.s), left.s = right.s))
      [] OTHER -> TRUE

\* C27: a comparison of two values of different tags, Null against a
\* non-null value included, is an evaluator error under each of the six
\* operators; of the comparisons of Null with Null only = (true) and !=
\* (false) succeed; two integers compare by integer order and two texts by
\* byte-lexicographic order.
C27_ComparisonIsWithinOneTag ==
    (Evaluated("BinaryOp") /\ lastStmt.expr.op \in ComparisonOps) =>
        ComparisonAsSpecified(OperandOf(lastStmt, lastStmt.expr.left), lastStmt.expr.op,
                              OperandOf(lastStmt, lastStmt.expr.right), lastResult.result)

\* "b" < "ab" was evaluated
C27_Witness ==
    /\ Evaluated("BinaryOp")
    /\ lastStmt.expr.op = "Lt"
    /\ lastStmt.row_values = <<TextV(<<"b">>)>>
    /\ lastStmt.expr.left = X
    /\ lastStmt.expr.right = Literal(SqlString(<<"a", "b">>))
    /\ lastResult.result = Ok(FALSE)

\* text matches the LIKE pattern: % is any run of characters, _ is any one
\* character, every other character of the pattern is itself
RECURSIVE LikeMatches(_, _)
LikeMatches(pat, text) ==
    IF Len(pat) = 0 THEN Len(text) = 0
    ELSE IF pat[1] = "%"
    THEN \E k \in 0..Len(text) : LikeMatches(Tail(pat), SubSeq(text, k + 1, Len(text)))
    ELSE /\ Len(text) > 0
         /\ (pat[1] = "_" \/ pat[1] = text[1])
         /\ LikeMatches(Tail(pat), Tail(text))

\* C28: for a text s and a text pattern p, s LIKE p is true exactly when all
\* of s matches p with % standing for any run of code points, _ for exactly
\* one code point and every other character, those with a meaning in
\* regular expressions included, for itself, in the case given; NOT LIKE is
\* the negation; an operand or pattern that is not a text is an error.
C28_LikeMatchesLiterally ==
    Evaluated("Like") =>
        IF /\ OperandOf(lastStmt, lastStmt.expr.expr).tag = "Text"
           /\ OperandOf(lastStmt, lastStmt.expr.pattern).tag = "Text"
        THEN lastResult.result =
                Ok(LikeMatches(OperandOf(lastStmt, lastStmt.expr.pattern).s,
                               OperandOf(lastStmt, lastStmt.expr.expr).s)
                   # lastStmt.expr.negated)
        ELSE IsError(lastResult.result)

\* low <= x AND x <= high as a predicate
WithinBounds(low, x, high) ==
    BinaryOp(BinaryOp(low, "LtEq", x), "And", BinaryOp(x, "LtEq", high))

BetweenAsSpecified(s, x, low, high, conjunction, result) ==
    /\ conjunction.ok => result = Ok(conjunction.val # s.expr.negated)
    /\ ~conjunction.ok => IsError(result)
    /\ (x.tag = "Integer" /\ low.tag = "Integer" /\ high.tag = "Integer")
            => result = Ok((low.i <= x.i /\ x.i <= high.i) # s.expr.negated)
    /\ (x.tag # low.tag \/ x.tag # high.tag \/ x.tag \in {"Null", "Boolean"})
            => IsError(result)

\* C29: x BETWEEN lo AND hi is what lo <= x AND x <= hi is: it holds at both
\* bounds, is false when lo is above hi, is an error when the three values do
\* not share a tag or are Null or Boolean, and NOT BETWEEN is the negation
\* of a result that is not an error.
C29_BetweenIsTwoComparisons ==
    Evaluated("Between") =>
        BetweenAsSpecified(lastStmt,
                           OperandOf(lastStmt, lastStmt.expr.expr),
                           OperandOf(lastStmt, lastStmt.expr.low),
                           OperandOf(lastStmt, lastStmt.expr.high),
                           evaluate(lastStmt.column_names,
                                    WithinBounds(lastStmt.expr.low, lastStmt.expr.expr,
                                                 lastStmt.expr.high),
                                    lastStmt.row_values),
                           lastResult.result)

\* 2 BETWEEN 3 AND 1 was evaluated
C29_Witness ==
    /\ Evaluated("Between")
    /\ ~lastStmt.expr.negated
    /\ lastStmt.row_values = <<IntV(2)>>
    /\ lastStmt.expr.low = Literal(SqlNumber(<<"3">>))
    /\ lastStmt.expr.high = Literal(SqlNumber(<<"1">>))
    /\ lastResult.result = Ok(FALSE)

\* same tag and equal payload
SameValue(a, b) ==
    /\ a.tag = b.tag
    /\ CASE a.tag = "Integer" -> a.i = b.i
         [] a.tag = "Float" -> ~a.nan /\ ~b.nan /\ a.halves = b.halves
         [] a.tag = "Text" -> a.s = b.s
         [] a.tag = "Boolean" -> a.b = b.b
         [] a.tag = "Null" -> TRUE

\* every element of the list is a value
ListOfValues(s) ==
    \A k \in 1..Len(s.expr.list) :
        extract_value(s.column_names, s.expr.list[k], s.row_values).ok

\* x = v for each listed v, as the evaluator answers it
Equalities(s) ==
    [k \in 1..Len(s.expr.list) |->
        evaluate(s.column_names, BinaryOp(s.expr.expr, "Eq", s.expr.list[k]), s.row_values)]

InListAsSpecified(s, x, equalities, result) ==
    /\ result = Ok((\E k \in 1..Len(s.expr.list) :
                        SameValue(x, OperandOf(s, s.expr.list[k]))) # s.expr.negated)
    /\ Len(s.expr.list) = 0 => result = Ok(s.expr.negated)
    /\ (\A k \in DOMAIN equalities : equalities[k].ok)
            => result = Ok((\E k \in DOMAIN equalities : equalities[k].val)
                           # s.expr.negated)

\* C30: x IN (v1, .., vn) is true exactly when some vi has the tag of x and
\* an equal payload; the empty list gives false; NOT IN gives the negation,
\* true for the empty list; when every x = vi is defined, the result is the
\* disjunction of those comparisons.
C30_InListIsSameTagEquality ==
    (Evaluated("InList") /\ ListOfValues(lastStmt)) =>
        InListAsSpecified(lastStmt, OperandOf(lastStmt, lastStmt.expr.expr),
                          Equalities(lastStmt), lastResult.result)

\* 2 IN (1, 2) was evaluated
C30_Witness ==
    /\ Evaluated("InList")
    /\ ~lastStmt.expr.negated
    /\ lastStmt.row_values = <<IntV(2)>>
    /\ lastStmt.expr.list = <<Literal(SqlNumber(<<"1">>)), Literal(SqlNumber(<<"2">>))>>
    /\ lastResult.result = Ok(TRUE)

ConnectiveAsSpecified(op, left_result, right_result, result) ==
    IF left_result.ok /\ right_result.ok
    THEN result = Ok(IF op = "And" THEN left_result.val /\ right_result.val
                     ELSE left_result.val \/ right_result.val)
    ELSE IsError(result)

\* C31: AND and OR evaluate both operands: an evaluator error of either
\* operand is an error of the composition, also where the other operand
\* alone decides it (false AND error, true OR error); with no error the
\* result is the conjunction, for OR the disjunction, of the operands.
C31_ConnectivesEvaluateBothOperands ==
    (Evaluated("BinaryOp") /\ lastStmt.expr.op \in {"And", "Or"}) =>
        ConnectiveAsSpecified(lastStmt.expr.op,
                              evaluate(lastStmt.column_names, lastStmt.expr.left,
                                       lastStmt.row_values),
                              evaluate(lastStmt.column_names, lastStmt.expr.right,
                                       lastStmt.row_values),
                              lastResult.result)

\* x = 1 OR x = 'a' was evaluated on x = 1: true OR error
C31_Witness ==
    /\ Evaluated("BinaryOp")
    /\ lastStmt.expr.op = "Or"
    /\ lastStmt.row_values = <<IntV(1)>>
    /\ lastStmt.expr.left = BinaryOp(X, "Eq", Literal(SqlNumber(<<"1">>)))
    /\ lastStmt.expr.right = BinaryOp(X, "Eq", Literal(SqlString(<<"a">>)))
    /\ IsError(lastResult.result)

\* C32: no table has a column of declared type Null: execute rejects a
\* CREATE TABLE with a column declared Null, so every column of every schema
\* the catalog returns has one of the types Integer, Float, Text, Boolean.
C32_NoColumnIsDeclaredNull ==
    /\ \A name \in TableNames :
          get_table(store, name).some =>
              \A k \in 1..Len(get_table(store, name).val.columns) :
                  get_table(store, name).val.columns[k].data_type
                      \in {"Integer", "Float", "Text", "Boolean"}
    /\ (/\ lastStmt.kind = "CreateTable"
        /\ \E k \in 1..Len(lastStmt.columns) : lastStmt.columns[k].data_type = "Null")
            => lastResult.kind = "Err"

\* the output columns a projection asks for: the name each is returned under
\* and its position in the schema (0 for a column the schema does not have)
RECURSIVE Expansion(_, _)
Expansion(schema, projection) ==
    IF Len(projection) = 0 THEN <<>>
    ELSE (IF projection[1].item = "Wildcard"
          THEN [j \in 1..Len(schema.columns) |->
                    [name |-> schema.columns[j].name, position |-> j]]
          ELSE <<[name |-> IF projection[1].alias.some THEN projection[1].alias.val
                           ELSE projection[1].name,
                  position |-> PositionOf(ColumnNames(schema), projection[1].name)]>>)
         \o Expansion(schema, Tail(projection))

ProjectionAsSpecified(asked, stored, result) ==
    IF Len(asked) = 0 \/ \E j \in 1..Len(asked) : asked[j].position = 0
    THEN result.kind = "Err" /\ result.err = "ReadError"
    ELSE result.kind = "Selected" =>
            /\ result.columns = [j \in 1..Len(asked) |-> asked[j].name]
            /\ \A k \in 1..Len(result.rows) : Len(result.rows[k]) = Len(asked)
            /\ result.rows = [k \in 1..Len(stored) |->
                                [j \in 1..Len(asked) |-> stored[k][asked[j].position]]]

\* C33: a successful SELECT returns as many column names as it projects and
\* rows of that length; * stands for all columns of the schema in declared
\* order, a named column for the value at its position in the schema, under
\* its alias or else its own name; an unknown column or an empty projection
\* is a read error; so it is too when the cache serves the result.
C33_ProjectionShapesTheResult ==
    [][(lastStmt'.kind = "Select" /\ get_table(store, lastStmt'.table).some)
       => ProjectionAsSpecified(
              Expansion(get_table(store, lastStmt'.table).val,
                        lastStmt'.query.projection),
              DecodedRows(scan_prefix(store, table_data_prefix(lastStmt'.table))),
              lastResult')]_vars

\* C34: two SELECT statements that differ in table, projection, aliases,
\* predicate, order keys, directions or limit never share a cache entry: a
\* SELECT served from the cache gets the rows that a SELECT of the same
\* table and query stored.
C34_CacheEntryBelongsToOneQuery ==
    (lastStmt.kind = "Select" /\ lastStmt.hit) =>
        lastStmt.storers[KeyOf(lastStmt)] = [table |-> lastStmt.table,
                                             query |-> lastStmt.query]

\* the stored row holds, at each position, nothing or a value of the tag the
\* column at that position declares
RowFitsSchema(bytes, schema) ==
    \A col \in 1..Len(bytes.values) :
        bytes.values[col].json = "value" =>
            /\ col <= Len(schema.columns)
            /\ bytes.values[col].value.tag = schema.columns[col].data_type

\* C35: in every state each non-null value stored in a row of a table has
\* the tag of the declared type of the column at its position, whatever
\* literals the INSERT and UPDATE statements before it carried.
C35_StoredValuesCarryColumnType ==
    \A name \in TableNames :
        get_table(store, name).some =>
            \A key \in RowKeys(name) \cap DOMAIN store :
                RowFitsSchema(store[key], get_table(store, name).val)

\* the values of the rows at a position that are not NULL, in row order
RECURSIVE NonNullAt(_, _)
NonNullAt(rows, col) ==
    IF Len(rows) = 0 THEN <<>>
    ELSE (IF rows[1][col].tag = "Null" THEN <<>> ELSE <<rows[1][col]>>)
         \o NonNullAt(Tail(rows), col)

\* floats in non-decreasing order
NonDecreasing(values) ==
    \A k \in 1..(Len(values) - 1) : values[k].halves <= values[k + 1].halves

\* C36: SELECT ... ORDER BY k ASC on a column k that is NULL in some rows
\* returns rows, and the values of k that are not NULL appear in
\* non-decreasing order, whatever order the rows were inserted in.
C36_NonNullKeysAscend ==
    (lastStmt.kind = "Select" /\ get_table(store, lastStmt.table).some) =>
        /\ lastResult.kind = "Selected"
        /\ NonDecreasing(NonNullAt(lastResult.rows, 2))

\* the table of the DROP in progress, or of the DROP that came last and
\* found its table in the catalog
DropTarget ==
    IF inflight.phase \in DropPhases THEN {inflight.table}
    ELSE IF lastStmt.kind = "DropTable" /\ lastStmt.existed THEN {lastStmt.table}
    ELSE {}

RowsGoBeforeEntry ==
    \A t \in DropTarget : ~get_table(store, t).some => DataKeys(store, t) = {}

\* C37: DROP TABLE removes the catalog entry only after every row key under
\* the table's data prefix is deleted: in every state a DROP passes through
\* and in the state an aborted DROP leaves, the table it names has an entry
\* or has no row key; and a DROP changes the cache only in a step that
\* starts with the entry gone.
C37_DropDeletesRowsThenEntryThenCache ==
    [][/\ RowsGoBeforeEntry'
       /\ (inflight.phase \in DropPhases /\ cache' # cache)
              => ~get_table(store, inflight.table).some]_vars

\* a DROP of a table with rows stands between drop_table and
\* invalidate_cache, the cache still holding an entry
C37_Witness ==
    /\ inflight.phase = "dropped"
    /\ inflight.rows > 0
    /\ cache.entries # <<>>
    /\ ~get_table(store, inflight.table).some


ReadKinds == {"Select", "ShowTables", "DescribeTable"}

\* the cache key of the SELECT statement stmt
OwnKey(stmt) ==
    build_cache_key(stmt.table, stmt.query.projection, stmt.query.where_clause,
                    stmt.query.order_by, stmt.query.limit)

\* cache c became d by at most the entry of key
AtMostAdds(c, d, key) ==
    /\ d.enabled = c.enabled
    /\ (DOMAIN c.entries) \subseteq DOMAIN d.entries
    /\ (DOMAIN d.entries) \subseteq (DOMAIN c.entries) \cup {key}
    /\ \A k \in (DOMAIN c.entries) \ {key} : d.entries[k] = c.entries[k]

\* the step is the read statement stmt and leaves what a read may leave
ReadFrame(stmt) ==
    /\ store' = store
    /\ stmt.kind \in {"ShowTables", "DescribeTable"} => cache' = cache
    /\ stmt.kind = "Select" => AtMostAdds(cache, cache', OwnKey(stmt))

\* the step repeats the SELECT that came last
RepeatsSelect ==
    /\ lastStmt.kind = "Select"
    /\ lastStmt' = lastStmt

\* C38: SELECT, SHOW TABLES and DESCRIBE write and delete no key of the
\* store; SHOW TABLES and DESCRIBE leave the cache as it was and a SELECT
\* changes it at most by the entry of its own key; a SELECT that directly
\* repeats the one before it returns the same rows in the same order.
C38_ReadsChangeNothingAndRepeat ==
    [][lastStmt'.kind \in ReadKinds
          => /\ ReadFrame(lastStmt')
             /\ RepeatsSelect => lastResult' = lastResult]_vars


\* the UPDATE and the statement interleaved with it have both returned
BothComplete ==
    /\ inflight.phase = "applied"
    /\ observed.some
    /\ observed.val.result.kind = "Deleted"

\* C39: when an UPDATE on T ran interleaved with another executor's DROP
\* TABLE T or DELETE on T and both have returned, no row key the DROP or
\* DELETE removed is in the store, and T has a catalog entry or no row key.
C39_UpdateNeverRecreatesDeletedRow ==
    BothComplete
        => /\ observed.val.removed \cap DOMAIN store = {}
           /\ ~get_table(store, inflight.table).some
                 => DataKeys(store, inflight.table) = {}

====
